---------------------------- MODULE Spec2Model ----------------------------
(***************************************************************************)
(* A model of the AeyeGuard security-analysis service: the language        *)
(* detector, the comment-stripping preprocessor, the normalizer of the     *)
(* remote model's reply, and the analyze pipeline behind POST /analyze.    *)
(*                                                                         *)
(* Text is a sequence of one-character strings.  The pure functions are    *)
(* operators; each has a specification that draws its arguments in Init    *)
(* and applies it in one action (call / ret): SpecDetect, SpecPre,          *)
(* SpecParse, SpecConvert, SpecGateway.  The service is the specification  *)
(* Spec (two concurrent POST /analyze requests), SpecLive (Spec with the   *)
(* remote calls resolving) and SpecEndpoints (one request to each of the   *)
(* three endpoints, over the lifespan).                                    *)
(***************************************************************************)
EXTENDS Integers, Sequences, FiniteSets, TLC

VARIABLES
    call,              \* the pure-function call under check: its name and arguments
    ret,               \* its outcome: [done |-> FALSE], or the value returned
    lifespan,          \* the application's lifespan: "before", "running", "after"
    service_instance,  \* the global service instance: "None" or "SecurityAnalyzerMCP"
    req,               \* the POST /analyze requests: each one's position, locals and response
    gets               \* the GET /health and GET /languages requests, likewise

vars == <<call, ret, lifespan, service_instance, req, gets>>

service_vars == <<lifespan, service_instance, req, gets>>

\* The service as the pure-function specifications leave it: not started
ServiceAbsent ==
    /\ lifespan = "before"
    /\ service_instance = "None"
    /\ req = <<>>
    /\ gets = <<>>

---------------------------------------------------------------------------
(* Text helpers                                                            *)

NL == "\n"

StartsWith(s, p) == Len(s) >= Len(p) /\ SubSeq(s, 1, Len(p)) = p

EndsWith(s, p) == Len(s) >= Len(p) /\ SubSeq(s, Len(s) - Len(p) + 1, Len(s)) = p

UpperCase == <<"A","B","C","D","E","F","G","H","I","J","K","L","M",
               "N","O","P","Q","R","S","T","U","V","W","X","Y","Z">>

LowerCase == <<"a","b","c","d","e","f","g","h","i","j","k","l","m",
               "n","o","p","q","r","s","t","u","v","w","x","y","z">>

\* str.lower() on one character
LowerChar(c) ==
    IF \E i \in 1..Len(UpperCase) : UpperCase[i] = c
    THEN LowerCase[CHOOSE i \in 1..Len(UpperCase) : UpperCase[i] = c]
    ELSE c

\* str.lower()
Lower(s) == [i \in 1..Len(s) |-> LowerChar(s[i])]

\* file_path: Optional[str]
None == [present |-> FALSE, text |-> <<>>]

Some(s) == [present |-> TRUE, text |-> s]

\* Python truthiness of an Optional[str]: None and "" are falsy
Truthy(p) == p.present /\ p.text # <<>>

---------------------------------------------------------------------------
(* models/data_models.py                                                   *)

\* LanguageType, in declaration order
LanguageType == <<"csharp", "react_typescript", "react_javascript", "java", "unknown">>

UNKNOWN == "unknown"

\* SeverityLevel
SeverityLevel == {"LOW", "MEDIUM", "HIGH", "CRITICAL"}

---------------------------------------------------------------------------
(* services/language_detector.py                                           *)

\* EXTENSION_MAP, a dict: iteration follows insertion order
EXTENSION_MAP == <<
    [ext |-> <<".","c","s">>,         lang |-> "csharp"],
    [ext |-> <<".","t","s","x">>,     lang |-> "react_typescript"],
    [ext |-> <<".","t","s">>,         lang |-> "react_typescript"],
    [ext |-> <<".","j","s","x">>,     lang |-> "react_javascript"],
    [ext |-> <<".","j","s">>,         lang |-> "react_javascript"],
    [ext |-> <<".","j","a","v","a">>, lang |-> "java"] >>

\* LANGUAGE_PATTERNS: the signature patterns of each language, by position in
\* its list (1..5; react_javascript has four).
LANGUAGE_PATTERNS ==
    [csharp           |-> {"cs1", "cs2", "cs3", "cs4", "cs5"},
     react_typescript |-> {"ts1", "ts2", "ts3", "ts4", "ts5"},
     react_javascript |-> {"js1", "js2", "js3", "js4"},
     java             |-> {"java1", "java2", "java3", "java4", "java5"}]

\* The source lines the modelled code is made of
LineText ==
    [using     |-> <<"u","s","i","n","g"," ","S","y","s","t","e","m",";"," ","/","/"," ","i","o">>,
     namespace |-> <<"n","a","m","e","s","p","a","c","e"," ","A","p","p">>,
     pubclass  |-> <<"p","u","b","l","i","c"," ","c","l","a","s","s"," ","F","o","o">>,
     react     |-> <<"i","m","p","o","r","t"," ","R","e","a","c","t"," ","f","r","o","m"," ",
                     "'","r","e","a","c","t","'">>,
     export    |-> <<"e","x","p","o","r","t"," ","d","e","f","a","u","l","t"," ",
                     "f","u","n","c","t","i","o","n"," ","A","p","p">>,
     props     |-> <<"i","n","t","e","r","f","a","c","e"," ","F","o","o","P","r","o","p","s">>,
     jimport   |-> <<"i","m","p","o","r","t"," ","j","a","v","a",".","u","t","i","l",".",
                     "L","i","s","t",";">>,
     override  |-> <<"@","O","v","e","r","r","i","d","e">>,
     plain     |-> <<"x"," ","="," ","1",";"," ","/","*"," ","t","m","p"," ","*","/">>]

\* The signature patterns re.search finds in each line (the source's regular
\* expressions run on the line's text); cs3 and java3 both match
\* "public class Foo", ts1 and js1 are one and the same expression.
LineMatches ==
    [using     |-> {"cs1"},
     namespace |-> {"cs2"},
     pubclass  |-> {"cs3", "java3"},
     react     |-> {"ts1", "js1"},
     export    |-> {"js2"},
     props     |-> {"ts3"},
     jimport   |-> {"java2"},
     override  |-> {"java4"},
     plain     |-> {}]

Lines == DOMAIN LineMatches

\* The text of a code: its lines joined by newlines
RECURSIVE CodeText(_)
CodeText(code) ==
    IF code = <<>> THEN <<>>
    ELSE IF Len(code) = 1 THEN LineText[code[1]]
    ELSE LineText[code[1]] \o <<NL>> \o CodeText(Tail(code))

\* re.search(pattern, code, re.MULTILINE), code being a sequence of lines: no
\* signature pattern matches across the line breaks of these lines.
re_search(pattern, code) == \E i \in 1..Len(code) : pattern \in LineMatches[code[i]]

\* A variant of _detect_by_extension that compares the path as written
_detect_by_extension_cased(file_path) ==
    LET hits == {i \in 1..Len(EXTENSION_MAP) : EndsWith(file_path, EXTENSION_MAP[i].ext)}
    IN  IF hits = {} THEN UNKNOWN
        ELSE EXTENSION_MAP[CHOOSE i \in hits : \A j \in hits : i <= j].lang

\* _detect_by_extension: the first entry of EXTENSION_MAP the lowered path ends with
_detect_by_extension(file_path) ==
    LET hits == {i \in 1..Len(EXTENSION_MAP) : EndsWith(Lower(file_path), EXTENSION_MAP[i].ext)}
    IN  IF hits = {} THEN UNKNOWN
        ELSE EXTENSION_MAP[CHOOSE i \in hits : \A j \in hits : i <= j].lang

\* scores = {lang: 0 for lang in LanguageType if lang != UNKNOWN}, then one
\* point per pattern of the language that re.search finds
ScoredLangs == SelectSeq(LanguageType, LAMBDA l : l # UNKNOWN)

Score(lang, code) == Cardinality({p \in LANGUAGE_PATTERNS[lang] : re_search(p, code)})

\* A variant of MaxItem that keeps the last of the items with the largest score
MaxItem_last(code) ==
    LET best == CHOOSE i \in 1..Len(ScoredLangs) :
                  /\ \A j \in 1..Len(ScoredLangs) :
                        Score(ScoredLangs[j], code) <= Score(ScoredLangs[i], code)
                  /\ \A j \in (i + 1)..Len(ScoredLangs) :
                        Score(ScoredLangs[j], code) < Score(ScoredLangs[i], code)
    IN  <<ScoredLangs[best], Score(ScoredLangs[best], code)>>

\* max(scores.items(), key=lambda x: x[1]): the first item, in the dict's order,
\* whose score is the largest
MaxItem(code) ==
    LET best == CHOOSE i \in 1..Len(ScoredLangs) :
                  /\ \A j \in 1..Len(ScoredLangs) :
                        Score(ScoredLangs[j], code) <= Score(ScoredLangs[i], code)
                  /\ \A j \in 1..(i - 1) :
                        Score(ScoredLangs[j], code) < Score(ScoredLangs[i], code)
    IN  <<ScoredLangs[best], Score(ScoredLangs[best], code)>>

\* A variant of _detect_by_patterns that accepts a best score of zero
_detect_by_patterns_zero(code) ==
    IF Len(ScoredLangs) > 0 /\ MaxItem(code)[2] >= 0
    THEN MaxItem(code)[1]
    ELSE UNKNOWN

_detect_by_patterns(code) ==
    IF Len(ScoredLangs) > 0 /\ MaxItem(code)[2] > 0
    THEN MaxItem(code)[1]
    ELSE UNKNOWN

detect_language(code, file_path) ==
    IF Truthy(file_path) /\ _detect_by_extension(file_path.text) # UNKNOWN
    THEN _detect_by_extension(file_path.text)
    ELSE _detect_by_patterns(code)

\* A variant of get_supported_extensions that lists the whole map
get_supported_extensions_all(language) ==
    [k \in 1..Len(EXTENSION_MAP) |-> EXTENSION_MAP[k].ext]

\* get_supported_extensions: the extensions mapped to the language, in map order
get_supported_extensions(language) ==
    LET idx == SelectSeq([i \in 1..Len(EXTENSION_MAP) |-> i],
                         LAMBDA i : EXTENSION_MAP[i].lang = language)
    IN  [k \in 1..Len(idx) |-> EXTENSION_MAP[idx[k]].ext]

---------------------------------------------------------------------------
(* The detector's specification: arguments drawn in Init, one call.        *)

MaxLines == 3

RECURSIVE SeqsUpTo(_, _)
SeqsUpTo(S, n) ==
    IF n = 0 THEN {<<>>}
    ELSE LET shorter == SeqsUpTo(S, n - 1)
         IN  shorter \cup {Append(s, x) : s \in {t \in shorter : Len(t) = n - 1}, x \in S}

Codes == SeqsUpTo(Lines, MaxLines)

Stems == { <<>>, <<"U">>, <<"a",".","j","s">>, <<"d",".","c","s","/","m">> }

Suffixes == { <<>>,
              <<".","c","s">>, <<".","C","S">>, <<".","t","s","x">>, <<".","T","s","X">>,
              <<".","t","s">>, <<".","j","s","x">>, <<".","j","s">>, <<".","J","S">>,
              <<".","j","a","v","a">>, <<".","J","a","v","a">>,
              <<".","p","y">>, <<"c","s">>, <<".","c","s","v">> }

Paths == {None} \cup {Some(st \o su) : st \in Stems, su \in Suffixes}

InitDetect ==
    /\ ServiceAbsent
    /\ call \in [fn : {"detect_language"}, code : Codes, file_path : Paths]
                \cup [fn : {"_detect_by_patterns"}, code : Codes]
                \cup [fn : {"get_supported_extensions"},
                      language : {LanguageType[k] : k \in 1..Len(LanguageType)}]
    /\ ret = [done |-> FALSE]

Call_detect_language ==
    /\ call.fn = "detect_language"
    /\ ~ret.done
    /\ ret' = [done |-> TRUE, value |-> detect_language(call.code, call.file_path)]
    /\ UNCHANGED <<call, service_vars>>

Call_detect_by_patterns ==
    /\ call.fn = "_detect_by_patterns"
    /\ ~ret.done
    /\ ret' = [done |-> TRUE, value |-> _detect_by_patterns(call.code)]
    /\ UNCHANGED <<call, service_vars>>

Call_get_supported_extensions ==
    /\ call.fn = "get_supported_extensions"
    /\ ~ret.done
    /\ ret' = [done |-> TRUE, value |-> get_supported_extensions(call.language)]
    /\ UNCHANGED <<call, service_vars>>

NextDetect ==
    \/ Call_detect_language
    \/ Call_detect_by_patterns
    \/ Call_get_supported_extensions

SpecDetect == InitDetect /\ [][NextDetect]_vars

---------------------------------------------------------------------------
(* Claims about the detector (checked under SpecDetect)                    *)

\* The extension of a path: its text from the last "." on, lowered; <<>> when
\* the path has no "."
Extension(path) ==
    LET dots == {i \in 1..Len(path) : path[i] = "."}
    IN  IF dots = {} THEN <<>>
        ELSE Lower(SubSeq(path, CHOOSE i \in dots : \A j \in dots : j <= i, Len(path)))

RegisteredExtensions == {EXTENSION_MAP[i].ext : i \in 1..Len(EXTENSION_MAP)}

MappedLanguage(ext) ==
    EXTENSION_MAP[CHOOSE i \in 1..Len(EXTENSION_MAP) : EXTENSION_MAP[i].ext = ext].lang

DetectDone == ret.done /\ call.fn = "detect_language"

PatternsDone == ret.done /\ call.fn = "_detect_by_patterns"

NoSignature(code) ==
    \A k \in 1..Len(ScoredLangs) : \A p \in LANGUAGE_PATTERNS[ScoredLangs[k]] : ~re_search(p, code)

BestScore(code) ==
    CHOOSE m \in 0..5 :
        /\ \E k \in 1..Len(ScoredLangs) : Score(ScoredLangs[k], code) = m
        /\ \A k \in 1..Len(ScoredLangs) : Score(ScoredLangs[k], code) <= m

EnumIndex(lang) == CHOOSE k \in 1..Len(LanguageType) : LanguageType[k] = lang

\* C3: whenever file_path's extension, compared case-insensitively, is a
\* registered one, detect_language returns the language mapped to it, whatever
\* the code is.
C3_ExtensionWins ==
    (DetectDone /\ call.file_path.present
        /\ Extension(call.file_path.text) \in RegisteredExtensions)
    => ret.value = MappedLanguage(Extension(call.file_path.text))

\* C3 witness: an upper-case ".CS" path with code whose signatures are Java's
\* is detected as csharp.
C3_Witness ==
    /\ DetectDone
    /\ call.file_path = Some(<<"U", ".", "C", "S">>)
    /\ call.code = <<"jimport", "override">>
    /\ _detect_by_patterns(call.code) = "java"
    /\ ret.value = "csharp"

\* C4: with no path and code that matches no signature pattern of any
\* language, detect_language returns Unknown.
C4_NoSignatureUnknown ==
    (DetectDone /\ ~call.file_path.present /\ NoSignature(call.code))
    => ret.value = UNKNOWN

\* C4 witness: two plain lines, no path, detected as Unknown.
C4_Witness ==
    /\ DetectDone
    /\ call.file_path = None
    /\ call.code = <<"plain", "plain">>
    /\ ret.value = UNKNOWN

\* C5: pattern-based detection returns a language whose score is the highest
\* and non-zero, and among the languages sharing that score the one declared
\* first in LanguageType.
C5_HighestScoreFirstDeclared ==
    (PatternsDone /\ BestScore(call.code) > 0)
    => /\ ret.value # UNKNOWN
       /\ Score(ret.value, call.code) = BestScore(call.code)
       /\ \A k \in 1..Len(ScoredLangs) :
            Score(ScoredLangs[k], call.code) = BestScore(call.code)
            => EnumIndex(ret.value) <= EnumIndex(ScoredLangs[k])

\* C5 witness: react_typescript and react_javascript tie at 1 and the earlier
\* one, react_typescript, is returned.
C5_Witness ==
    /\ PatternsDone
    /\ call.code = <<"react">>
    /\ Score("react_typescript", call.code) = 1
    /\ Score("react_javascript", call.code) = 1
    /\ ret.value = "react_typescript"

---------------------------------------------------------------------------
(* analyzers/base_analyzer.py and java_analyzer.py: preprocess_code        *)

\* The registered analyzer classes
Analyzers == {"CSharpSecurityAnalyzer", "ReactTypeScriptAnalyzer",
              "ReactJavaScriptAnalyzer", "JavaSecurityAnalyzer"}

CountNL(s) == Cardinality({i \in 1..Len(s) : s[i] = NL})

Newlines(n) == [i \in 1..n |-> NL]

\* Where `$` first matches at or after the start of s under re.MULTILINE and a
\* `.` that does not match a newline: the text from the first newline on
RECURSIVE FromEol(_)
FromEol(s) ==
    IF s = <<>> \/ Head(s) = NL THEN s ELSE FromEol(Tail(s))

\* re.sub(r"//.*?$", "", code, flags=re.MULTILINE)
RECURSIVE sub_line_comments(_)
sub_line_comments(s) ==
    IF s = <<>> THEN <<>>
    ELSE IF StartsWith(s, <<"/", "/">>) THEN sub_line_comments(FromEol(s))
    ELSE <<Head(s)>> \o sub_line_comments(Tail(s))

\* The least k >= 3 with s[k..k+1] = "*/", or 0: where the lazy `.*?\*/`
\* ends for a match of `/\*` at the start of s (re.DOTALL)
BlockClose(s) ==
    LET ks == {k \in 3..(Len(s) - 1) : s[k] = "*" /\ s[k + 1] = "/"}
    IN  IF ks = {} THEN 0 ELSE CHOOSE k \in ks : \A j \in ks : k <= j

\* A variant of replace_multiline_comment that replaces the comment by nothing
replace_multiline_comment_empty(match) == <<>>

\* replace_multiline_comment: as many newlines as the matched comment holds
replace_multiline_comment(match) == Newlines(CountNL(match))

\* re.sub(r"/\*.*?\*/", replace_multiline_comment, code, flags=re.DOTALL)
RECURSIVE sub_block_comments(_)
sub_block_comments(s) ==
    IF s = <<>> THEN <<>>
    ELSE IF StartsWith(s, <<"/", "*">>) /\ BlockClose(s) # 0
    THEN replace_multiline_comment(SubSeq(s, 1, BlockClose(s) + 1))
            \o sub_block_comments(SubSeq(s, BlockClose(s) + 2, Len(s)))
    ELSE <<Head(s)>> \o sub_block_comments(Tail(s))

\* BaseSecurityAnalyzer.preprocess_code
preprocess_code(code) == sub_block_comments(sub_line_comments(code))

\* JavaSecurityAnalyzer.preprocess_code, the override: its own two re.sub calls
java_replace_multiline_comment(match) == Newlines(CountNL(match))

RECURSIVE java_sub_block_comments(_)
java_sub_block_comments(s) ==
    IF s = <<>> THEN <<>>
    ELSE IF StartsWith(s, <<"/", "*">>) /\ BlockClose(s) # 0
    THEN java_replace_multiline_comment(SubSeq(s, 1, BlockClose(s) + 1))
            \o java_sub_block_comments(SubSeq(s, BlockClose(s) + 2, Len(s)))
    ELSE <<Head(s)>> \o java_sub_block_comments(Tail(s))

java_preprocess_code(code) == java_sub_block_comments(sub_line_comments(code))

\* A variant of the preprocessing that hands the code on as it came
preprocess_skipped(analyzer, code) == code

\* self.preprocess_code(code): the method of the analyzer's class
preprocess_of(analyzer, code) ==
    IF analyzer = "JavaSecurityAnalyzer" THEN java_preprocess_code(code)
    ELSE preprocess_code(code)

---------------------------------------------------------------------------
(* The preprocessor's specification                                        *)

MaxCodeLen == 5

CodeAlphabet == {"/", "*", NL, "a", "\""}

CodeTexts == SeqsUpTo(CodeAlphabet, MaxCodeLen)

InitPre ==
    /\ ServiceAbsent
    /\ call \in [fn : {"preprocess_code"}, analyzer : Analyzers, code : CodeTexts]
    /\ ret = [done |-> FALSE]

Call_preprocess_code ==
    /\ call.fn = "preprocess_code"
    /\ ~ret.done
    /\ ret' = [done |-> TRUE, value |-> preprocess_of(call.analyzer, call.code)]
    /\ UNCHANGED <<call, service_vars>>

NextPre == Call_preprocess_code

SpecPre == InitPre /\ [][NextPre]_vars

---------------------------------------------------------------------------
(* Claims about preprocess_code (checked under SpecPre)                    *)

PreDone == ret.done /\ call.fn = "preprocess_code"

\* s holds a double quote before the end of its first line
RECURSIVE ClosesOnLine(_)
ClosesOnLine(s) ==
    IF s = <<>> \/ Head(s) = NL THEN FALSE
    ELSE IF Head(s) = "\"" THEN TRUE
    ELSE ClosesOnLine(Tail(s))

\* The text of s that lies outside comments, as a lexer of the analysed
\* languages reads it: a string literal runs from a double quote to the next one
\* on the same line and hides comment openers (a quote that is not closed on
\* its line is an ordinary character); a line comment runs from // to the end
\* of its line; a block comment from /* to the next */ (to the end of the text
\* when it is not closed).
RECURSIVE Lex(_, _)
Lex(s, mode) ==
    IF s = <<>> THEN <<>>
    ELSE CASE mode = "code" ->
                IF StartsWith(s, <<"/", "/">>) THEN Lex(SubSeq(s, 3, Len(s)), "line")
                ELSE IF StartsWith(s, <<"/", "*">>) THEN Lex(SubSeq(s, 3, Len(s)), "block")
                ELSE IF Head(s) = "\"" /\ ClosesOnLine(Tail(s))
                     THEN <<Head(s)>> \o Lex(Tail(s), "string")
                ELSE <<Head(s)>> \o Lex(Tail(s), "code")
           [] mode = "string" ->
                IF Head(s) = "\"" THEN <<Head(s)>> \o Lex(Tail(s), "code")
                ELSE <<Head(s)>> \o Lex(Tail(s), "string")
           [] mode = "line" ->
                IF Head(s) = NL THEN <<NL>> \o Lex(Tail(s), "code")
                ELSE Lex(Tail(s), "line")
           [] mode = "block" ->
                IF StartsWith(s, <<"*", "/">>) THEN Lex(SubSeq(s, 3, Len(s)), "code")
                ELSE Lex(Tail(s), "block")

NonCommentText(s) == Lex(s, "code")

\* a is b with some characters left out
RECURSIVE IsSubsequence(_, _)
IsSubsequence(a, b) ==
    IF a = <<>> THEN TRUE
    ELSE IF b = <<>> THEN FALSE
    ELSE IF Head(a) = Head(b) THEN IsSubsequence(Tail(a), Tail(b))
    ELSE IsSubsequence(a, Tail(b))

\* C6: preprocess_code preserves the number of newline characters, for every
\* analyzer and every input.
C6_NewlinesPreserved ==
    PreDone => CountNL(ret.value) = CountNL(call.code)

\* C6 witness: a block comment spanning two lines is replaced by one newline.
C6_Witness ==
    /\ PreDone
    /\ call.code = <<"/", "*", NL, "*", "/">>
    /\ ret.value = <<NL>>

\* C7 (as claimed): preprocess_code removes only comment text, so the text
\* outside comments, string literals included, is still in the output, in order.
C7_OnlyCommentsRemoved ==
    PreDone => IsSubsequence(NonCommentText(call.code), ret.value)

---------------------------------------------------------------------------
(* json.loads, as services/llm_service.py uses it.  The texts of the model *)
(* hold brackets, braces, commas, colons, double quotes, the digits 0-9,   *)
(* white space and other characters that start no JSON value; they hold    *)
(* no sign, fraction, exponent, backslash or literal name (null, true).    *)

\* A decoded JSON value: kind, the literal of a number or string, the items of
\* an array, the (key, value) pairs of an object in the order read
Num(digits) == [kind |-> "number", lit |-> digits, items |-> <<>>, pairs |-> <<>>]

Str(chars) == [kind |-> "string", lit |-> chars, items |-> <<>>, pairs |-> <<>>]

Arr(items) == [kind |-> "array", lit |-> <<>>, items |-> items, pairs |-> <<>>]

Obj(pairs) == [kind |-> "object", lit |-> <<>>, items |-> <<>>, pairs |-> pairs]

NoValue == [kind |-> "none", lit |-> <<>>, items |-> <<>>, pairs |-> <<>>]

\* The outcome of a scan: ok = FALSE stands for json.JSONDecodeError; end is
\* the index after the value read
Failed == [ok |-> FALSE, end |-> 0, value |-> NoValue]

Scanned(v, e) == [ok |-> TRUE, end |-> e, value |-> v]

WHITESPACE == {" ", "\t", NL, "\r"}

Digits == {"0", "1", "2", "3", "4", "5", "6", "7", "8", "9"}

\* WHITESPACE.match(s, i).end(): the first index from i on that holds no white space
RECURSIVE SkipWS(_, _)
SkipWS(s, i) == IF i <= Len(s) /\ s[i] \in WHITESPACE THEN SkipWS(s, i + 1) ELSE i

\* The end of the run of digits starting at i
RECURSIVE DigitsEnd(_, _)
DigitsEnd(s, i) == IF i <= Len(s) /\ s[i] \in Digits THEN DigitsEnd(s, i + 1) ELSE i

\* NUMBER_RE at i, s[i] a digit: 0, or a run of digits that does not start with 0
match_number(s, i) ==
    LET e == IF s[i] = "0" THEN i + 1 ELSE DigitsEnd(s, i)
    IN  Scanned(Num(SubSeq(s, i, e - 1)), e)

\* scanstring(s, i), i the index after the opening quote: the text up to the
\* next quote; a control character before it is an error (strict mode)
scanstring(s, i) ==
    LET qs == {k \in i..Len(s) : s[k] = "\""}
    IN  IF qs = {} THEN Failed
        ELSE LET q == CHOOSE k \in qs : \A j \in qs : k <= j
             IN  IF \E k \in i..(q - 1) : s[k] \in {"\t", NL, "\r"} THEN Failed
                 ELSE Scanned(Str(SubSeq(s, i, q - 1)), q + 1)

RECURSIVE scan_once(_, _), ArrayItems(_, _, _), ObjectPairs(_, _, _)

\* JSONArray's loop: a value, then `]` or `,`; i is where the next value starts
ArrayItems(s, i, acc) ==
    LET v == scan_once(s, i)
    IN  IF ~v.ok THEN Failed
        ELSE LET j == SkipWS(s, v.end)
             IN  IF j > Len(s) THEN Failed
                 ELSE IF s[j] = "]" THEN Scanned(Arr(Append(acc, v.value)), j + 1)
                 ELSE IF s[j] = "," THEN ArrayItems(s, SkipWS(s, j + 1), Append(acc, v.value))
                 ELSE Failed

\* JSONArray(s, i), i the index after `[`
JSONArray(s, i) ==
    LET j == SkipWS(s, i)
    IN  IF j <= Len(s) /\ s[j] = "]" THEN Scanned(Arr(<<>>), j + 1)
        ELSE ArrayItems(s, j, <<>>)

\* JSONObject's loop: i is the index after the opening quote of a key
ObjectPairs(s, i, acc) ==
    LET k == scanstring(s, i)
    IN  IF ~k.ok THEN Failed
        ELSE LET c == SkipWS(s, k.end)
             IN  IF c > Len(s) \/ s[c] # ":" THEN Failed
                 ELSE LET v == scan_once(s, SkipWS(s, c + 1))
                      IN  IF ~v.ok THEN Failed
                          ELSE LET j   == SkipWS(s, v.end)
                                   new == Append(acc, <<k.value.lit, v.value>>)
                               IN  IF j > Len(s) THEN Failed
                                   ELSE IF s[j] = "}" THEN Scanned(Obj(new), j + 1)
                                   ELSE IF s[j] # "," THEN Failed
                                   ELSE LET q == SkipWS(s, j + 1)
                                        IN  IF q > Len(s) \/ s[q] # "\"" THEN Failed
                                            ELSE ObjectPairs(s, q + 1, new)

\* JSONObject(s, i), i the index after `{`
JSONObject(s, i) ==
    LET j == SkipWS(s, i)
    IN  IF j > Len(s) THEN Failed
        ELSE IF s[j] = "}" THEN Scanned(Obj(<<>>), j + 1)
        ELSE IF s[j] = "\"" THEN ObjectPairs(s, j + 1, <<>>)
        ELSE Failed

\* scan_once(s, i): the value that starts at index i
scan_once(s, i) ==
    IF i > Len(s) THEN Failed
    ELSE CASE s[i] = "\""     -> scanstring(s, i + 1)
           [] s[i] = "{"      -> JSONObject(s, i + 1)
           [] s[i] = "["      -> JSONArray(s, i + 1)
           [] s[i] \in Digits -> match_number(s, i)
           [] OTHER           -> Failed

\* json.loads(s): one value, white space around it, nothing else
json_loads(s) ==
    LET v == scan_once(s, SkipWS(s, 1))
    IN  IF v.ok /\ SkipWS(s, v.end) = Len(s) + 1 THEN v ELSE Failed

---------------------------------------------------------------------------
(* services/llm_service.py: parse_llm_response                             *)

\* The raw response handed to parse_llm_response: text, or a value that is not
\* text (a null `content` in the remote reply)
Text(t) == [is_text |-> TRUE, text |-> t]

NotText == [is_text |-> FALSE, text |-> <<>>]

\* How a call ends: it returns a value, or raises an exception of a class with
\* a message, str(e), kept as the fragments it is put together from
Return(v) == [raised |-> FALSE, exc |-> "", msg |-> <<>>, value |-> v]

Raise(e, m) == [raised |-> TRUE, exc |-> e, msg |-> m, value |-> <<>>]

\* str.find(c) and str.rfind(c), as 0-based indexes; -1 when c is not in s
find(s, c) ==
    LET is == {i \in 1..Len(s) : s[i] = c}
    IN  IF is = {} THEN -1 ELSE (CHOOSE i \in is : \A j \in is : i <= j) - 1

rfind(s, c) ==
    LET is == {i \in 1..Len(s) : s[i] = c}
    IN  IF is = {} THEN -1 ELSE (CHOOSE i \in is : \A j \in is : j <= i) - 1

\* A variant of json_start that looks for the last `[`
json_start_last(response) == rfind(response, "[")

\* json_start = response.find("[")
json_start(response) == find(response, "[")

\* A variant of json_end that leaves the `]` out of the slice
json_end_short(response) == rfind(response, "]")

\* json_end = response.rfind("]") + 1
json_end(response) == rfind(response, "]") + 1

\* issues = json.loads(text); return issues if isinstance(issues, list) else []
\* (a JSONDecodeError of json.loads leaves the statement)
loads_list(text) ==
    LET r == json_loads(text)
    IN  IF ~r.ok THEN Raise("JSONDecodeError", <<"Expecting value">>)
        ELSE IF r.value.kind = "array" THEN Return(r.value.items)
        ELSE Return(<<>>)

\* The body of parse_llm_response's try block
parse_body(response) ==
    IF ~response.is_text
    THEN Raise("AttributeError", <<"'NoneType' object has no attribute 'find'">>)
    ELSE IF json_start(response.text) >= 0
            /\ json_end(response.text) > json_start(response.text)
    THEN loads_list(SubSeq(response.text, json_start(response.text) + 1,
                           json_end(response.text)))
    ELSE loads_list(response.text)

\* A variant of parse_llm_response without its except clause
parse_llm_response_uncaught(response) == parse_body(response)

\* parse_llm_response: the try block, and `except json.JSONDecodeError: return []`
parse_llm_response(response) ==
    LET r == parse_body(response)
    IN  IF r.raised /\ r.exc = "JSONDecodeError" THEN Return(<<>>) ELSE r

---------------------------------------------------------------------------
(* The normalizer's specification                                          *)

MaxTextLen == 4

TextAlphabet == {"[", "]", "{", "}", ",", "1", "2", "\"", " ", "x"}

\* json.dumps of a value, with the item separator given ("," or ", ")
RECURSIVE json_dumps(_, _), JoinDumps(_, _)
JoinDumps(items, sep) ==
    IF items = <<>> THEN <<>>
    ELSE IF Len(items) = 1 THEN json_dumps(items[1], sep)
    ELSE json_dumps(items[1], sep) \o sep \o JoinDumps(Tail(items), sep)

json_dumps(v, sep) ==
    CASE v.kind = "number" -> v.lit
      [] v.kind = "string" -> <<"\"">> \o v.lit \o <<"\"">>
      [] v.kind = "array"  -> <<"[">> \o JoinDumps(v.items, sep) \o <<"]">>
      [] v.kind = "object" -> <<"{", "}">>

\* The elements of the arrays whose encodings are fed to the normalizer
Elements == { Num(<<"1">>), Num(<<"2">>), Obj(<<>>), Arr(<<>>), Arr(<<Num(<<"1">>)>>),
              Str(<<"]">>), Str(<<"[", "x">>) }

MaxItems == 2

Arrays == {Arr(items) : items \in SeqsUpTo(Elements, MaxItems)}

Separators == { <<",">>, <<",", " ">> }

\* (text, array) for every encoding of every array
Encodings == {<<json_dumps(a, sep), a>> : a \in Arrays, sep \in Separators}

Responses ==
    {Text(t) : t \in SeqsUpTo(TextAlphabet, MaxTextLen)}
        \cup {Text(e[1]) : e \in Encodings}
        \cup {Text(<<"x">> \o e[1] \o <<"x">>) : e \in Encodings}
        \cup {NotText}

InitParse ==
    /\ ServiceAbsent
    /\ call \in [fn : {"parse_llm_response"}, response : Responses]
    /\ ret = [done |-> FALSE]

Call_parse_llm_response ==
    /\ call.fn = "parse_llm_response"
    /\ ~ret.done
    /\ ret' = [done |-> TRUE, out |-> parse_llm_response(call.response)]
    /\ UNCHANGED <<call, service_vars>>

NextParse == Call_parse_llm_response

SpecParse == InitParse /\ [][NextParse]_vars

---------------------------------------------------------------------------
(* Claims about parse_llm_response (checked under SpecParse)               *)

ParseDone == ret.done /\ call.fn = "parse_llm_response"

\* The text from the first `[` to the last `]` of t; <<>> when t holds no `[`
\* or no `]` after its first `[`
FirstOpen(t) ==
    IF \E i \in 1..Len(t) : t[i] = "["
    THEN CHOOSE i \in 1..Len(t) : t[i] = "[" /\ \A j \in 1..(i - 1) : t[j] # "["
    ELSE 0

LastClose(t) ==
    IF \E i \in 1..Len(t) : t[i] = "]"
    THEN CHOOSE i \in 1..Len(t) : t[i] = "]" /\ \A j \in (i + 1)..Len(t) : t[j] # "]"
    ELSE 0

Bracketed(t) ==
    IF FirstOpen(t) > 0 /\ LastClose(t) > FirstOpen(t)
    THEN SubSeq(t, FirstOpen(t), LastClose(t))
    ELSE <<>>

DecodesToArray(t) == json_loads(t).ok /\ json_loads(t).value.kind = "array"

\* C8: for a raw text that is the JSON encoding of an array, parse_llm_response
\* returns the array's elements, one record each, in the array's order.
C8_ArrayTextRoundTrip ==
    \A e \in Encodings :
        (ParseDone /\ call.response = Text(e[1])) => ret.out = Return(e[2].items)

\* C8 witness: the text `[2, "]"]` yields the two records 2 and "]", in order.
C8_Witness ==
    /\ ParseDone
    /\ call.response = Text(<<"[", "2", ",", " ", "\"", "]", "\"", "]">>)
    /\ ret.out = Return(<<Num(<<"2">>), Str(<<"]">>)>>)

C10_SubstringThenWholeThenEmpty ==
    (ParseDone /\ call.response.is_text)
    => LET t == call.response.text
       IN  ret.out = Return(IF DecodesToArray(Bracketed(t))
                              THEN json_loads(Bracketed(t)).value.items
                            ELSE IF DecodesToArray(t)
                              THEN json_loads(t).value.items
                            ELSE <<>>)

\* C10 witness: an array nested in an array and wrapped in other text is
\* decoded from the text between the outer brackets.
C10_Witness ==
    /\ ParseDone
    /\ call.response = Text(<<"x", "[", "[", "]", "]", "x">>)
    /\ Bracketed(call.response.text) = <<"[", "[", "]", "]">>
    /\ ret.out = Return(<<Arr(<<>>)>>)

---------------------------------------------------------------------------
(* services/llm_service.py: analyze_code, the one chat-completion request  *)

\* What the remote model's endpoint answers to the POST: the connection
\* fails, the 120 s timeout expires, or an HTTP reply arrives with a status and
\* a body: not JSON, JSON without choices[0].message.content, or JSON whose
\* content is `content` (text, or null)
ConnectError == [kind |-> "connect_error", status |-> 0, body |-> "", content |-> NotText]

ReadTimeout == [kind |-> "timeout", status |-> 0, body |-> "", content |-> NotText]

HttpReply(status, body, content) ==
    [kind |-> "http", status |-> status, body |-> body, content |-> content]

\* A variant of analyze_code that returns no text instead of raising
analyze_code_silent(reply) ==
    IF reply.kind = "http" /\ reply.status \in 200..299 /\ reply.body = "content"
    THEN Return(reply.content)
    ELSE Return(Text(<<>>))

\* A variant of analyze_code without its except clause: the exceptions of the
\* request and of the lookup leave it as they are
analyze_code_unwrapped(reply) ==
    CASE reply.kind = "connect_error" ->
            Raise("ConnectError", <<"All connection attempts failed">>)
      [] reply.kind = "timeout" -> Raise("ReadTimeout", <<>>)
      [] reply.kind = "http" /\ reply.status \notin 200..299 ->
            Raise("HTTPStatusError", <<"HTTP status ", ToString(reply.status)>>)
      [] reply.kind = "http" /\ reply.status \in 200..299 /\ reply.body = "not_json" ->
            Raise("JSONDecodeError", <<"Expecting value">>)
      [] reply.kind = "http" /\ reply.status \in 200..299 /\ reply.body = "no_choices" ->
            Raise("KeyError", <<"'choices'">>)
      [] OTHER -> Return(reply.content)

\* analyze_code once client.post has resolved: raise_for_status, response.json(),
\* result["choices"][0]["message"]["content"]; every exception is raised again
\* as Exception("LLM analysis failed: ...")
analyze_code(reply) ==
    CASE reply.kind = "connect_error" ->
            Raise("Exception", <<"LLM analysis failed: ", "All connection attempts failed">>)
      [] reply.kind = "timeout" ->
            Raise("Exception", <<"LLM analysis failed: ", "">>)
      [] reply.kind = "http" /\ reply.status \notin 200..299 ->
            Raise("Exception", <<"LLM analysis failed: ", "HTTP status ", ToString(reply.status)>>)
      [] reply.kind = "http" /\ reply.status \in 200..299 /\ reply.body = "not_json" ->
            Raise("Exception", <<"LLM analysis failed: ", "Expecting value">>)
      [] reply.kind = "http" /\ reply.status \in 200..299 /\ reply.body = "no_choices" ->
            Raise("Exception", <<"LLM analysis failed: ", "'choices'">>)
      [] OTHER -> Return(reply.content)

---------------------------------------------------------------------------
(* analyzers/base_analyzer.py: _create_security_issues, _generate_summary, *)
(* analyze                                                                 *)

\* get_language_type of each analyzer class
get_language_type(analyzer) ==
    CASE analyzer = "CSharpSecurityAnalyzer"  -> "csharp"
      [] analyzer = "ReactTypeScriptAnalyzer" -> "react_typescript"
      [] analyzer = "ReactJavaScriptAnalyzer" -> "react_javascript"
      [] analyzer = "JavaSecurityAnalyzer"    -> "java"

UpperChar(c) ==
    IF \E i \in 1..Len(LowerCase) : LowerCase[i] = c
    THEN UpperCase[CHOOSE i \in 1..Len(LowerCase) : LowerCase[i] = c]
    ELSE c

\* str.upper()
Upper(s) == [i \in 1..Len(s) |-> UpperChar(s[i])]

\* The values of SeverityLevel, as text
SeverityText ==
    [LOW      |-> <<"L","O","W">>,
     MEDIUM   |-> <<"M","E","D","I","U","M">>,
     HIGH     |-> <<"H","I","G","H">>,
     CRITICAL |-> <<"C","R","I","T","I","C","A","L">>]

\* dict.get(key, default) on a decoded object: the last pair read for the key
Has(data, key) == \E i \in 1..Len(data.pairs) : data.pairs[i][1] = key

Get(data, key, default) ==
    IF Has(data, key)
    THEN data.pairs[CHOOSE i \in 1..Len(data.pairs) :
                        /\ data.pairs[i][1] = key
                        /\ \A j \in (i + 1)..Len(data.pairs) : data.pairs[j][1] # key][2]
    ELSE default

\* The field names of a raw record
K_severity == <<"s","e","v","e","r","i","t","y">>

K_id == <<"i","d">>

K_title == <<"t","i","t","l","e">>

K_description == <<"d","e","s","c","r","i","p","t","i","o","n">>

K_line_number == <<"l","i","n","e","_","n","u","m","b","e","r">>

K_column_number == <<"c","o","l","u","m","n","_","n","u","m","b","e","r">>

K_file_path == <<"f","i","l","e","_","p","a","t","h">>

K_code_snippet == <<"c","o","d","e","_","s","n","i","p","p","e","t">>

K_remediation == <<"r","e","m","e","d","i","a","t","i","o","n">>

K_references == <<"r","e","f","e","r","e","n","c","e","s">>

\* A variant of the severity coercion that falls back to LOW
to_severity_low(severity_str) ==
    IF \E l \in SeverityLevel : SeverityText[l] = severity_str
    THEN CHOOSE l \in SeverityLevel : SeverityText[l] = severity_str
    ELSE "LOW"

\* SeverityLevel(severity_str), MEDIUM on ValueError
to_severity(severity_str) ==
    IF \E l \in SeverityLevel : SeverityText[l] = severity_str
    THEN CHOOSE l \in SeverityLevel : SeverityText[l] = severity_str
    ELSE "MEDIUM"

\* A variant of the default identifier: none
generated_id_none(idx) == NoValue

\* f"SEC-{uuid.uuid4().hex[:8]}": a generated identifier (the random digits are
\* stood for by the record's index)
generated_id(idx) == Str(<<"S", "E", "C", "-", "#", ToString(idx)>>)

\* What pydantic accepts for the fields of SecurityIssue: str; Optional[int]
\* (a number, or text made of digits); Optional[str]; Optional[List[str]]
IsStr(v) == v.kind = "string"

IsOptStr(v) == v.kind \in {"string", "none"}

IsOptInt(v) ==
    \/ v.kind \in {"number", "none"}
    \/ v.kind = "string" /\ v.lit # <<>> /\ \A i \in 1..Len(v.lit) : v.lit[i] \in Digits

IsOptStrList(v) ==
    \/ v.kind = "none"
    \/ v.kind = "array" /\ \A i \in 1..Len(v.items) : v.items[i].kind = "string"

\* What pydantic makes of an accepted Optional[int] value: text made of digits
\* becomes the number it spells (leading zeros gone)
RECURSIVE strip_zeros(_)
strip_zeros(digits) ==
    IF Len(digits) > 1 /\ Head(digits) = "0" THEN strip_zeros(Tail(digits)) ELSE digits

to_int(v) == IF v.kind = "string" THEN Num(strip_zeros(v.lit)) ELSE v

\* file_path or data.get("file_path")
issue_file_path(data, file_path) ==
    IF Truthy(file_path) THEN Str(file_path.text) ELSE Get(data, K_file_path, NoValue)

\* The body of the loop of _create_security_issues for one record: the issue,
\* or dropped = TRUE when it raises (a record that is no object, a severity
\* that is no text, a field pydantic rejects)
convert_record(idx, data, file_path) ==
    LET dropped == [dropped |-> TRUE, issue |-> NoValue]
    IN  IF data.kind # "object" THEN dropped
        ELSE IF ~IsStr(Get(data, K_severity, Str(SeverityText["MEDIUM"]))) THEN dropped
        ELSE LET issue ==
                   [id            |-> Get(data, K_id, generated_id(idx)),
                    title         |-> Get(data, K_title, Str(<<"Security Issue">>)),
                    description   |-> Get(data, K_description, Str(<<"No description provided">>)),
                    severity      |-> to_severity(Upper(
                                        Get(data, K_severity, Str(SeverityText["MEDIUM"])).lit)),
                    line_number   |-> Get(data, K_line_number, NoValue),
                    column_number |-> Get(data, K_column_number, NoValue),
                    file_path     |-> issue_file_path(data, file_path),
                    code_snippet  |-> Get(data, K_code_snippet, NoValue),
                    remediation   |-> Get(data, K_remediation, NoValue),
                    references    |-> Get(data, K_references, Arr(<<>>))]
             IN  IF /\ IsStr(issue.id) /\ IsStr(issue.title) /\ IsStr(issue.description)
                    /\ IsOptInt(issue.line_number) /\ IsOptInt(issue.column_number)
                    /\ IsOptStr(issue.file_path) /\ IsOptStr(issue.code_snippet)
                    /\ IsOptStr(issue.remediation) /\ IsOptStrList(issue.references)
                 THEN [dropped |-> FALSE,
                       issue   |-> [issue EXCEPT !.line_number = to_int(@),
                                                 !.column_number = to_int(@)]]
                 ELSE dropped

\* _create_security_issues: the issues of the records that convert, in order
RECURSIVE create_from(_, _, _)
create_from(idx, issues_data, file_path) ==
    IF idx > Len(issues_data) THEN <<>>
    ELSE LET c == convert_record(idx - 1, issues_data[idx], file_path)
         IN  (IF c.dropped THEN <<>> ELSE <<c.issue>>)
                \o create_from(idx + 1, issues_data, file_path)

\* A variant of _create_security_issues in which one record that raises fails
\* the whole batch
_create_security_issues_failing(issues_data, file_path) ==
    IF \E idx \in 1..Len(issues_data) :
            convert_record(idx - 1, issues_data[idx], file_path).dropped
    THEN <<>>
    ELSE create_from(1, issues_data, file_path)

_create_security_issues(issues_data, file_path) == create_from(1, issues_data, file_path)

\* A variant of the count: whether any issue has the severity
CountSeverity_any(issues, level) ==
    IF \E i \in 1..Len(issues) : issues[i].severity = level THEN 1 ELSE 0

\* sum(1 for i in issues if i.severity == level)
CountSeverity(issues, level) ==
    Cardinality({i \in 1..Len(issues) : issues[i].severity = level})

\* ", ".join(parts)
RECURSIVE JoinParts(_)
JoinParts(parts) ==
    IF parts = <<>> THEN <<>>
    ELSE IF Len(parts) = 1 THEN parts[1]
    ELSE parts[1] \o <<", ">> \o JoinParts(Tail(parts))

\* The completion banner _generate_summary appends
completion_message(analyzer) ==
    <<"\n\n", "=" , "\n", "ANALYSIS COMPLETED SUCCESSFULLY", "\n", "=", "\n",
      "Language: ", get_language_type(analyzer), "\n",
      "Analyzer: ", analyzer, "\n", "Status: FINISHED", "\n", "=">>

\* A variant of _generate_summary that lists the severities lowest first
_generate_summary_ascending(issues, analyzer) ==
    LET part(level, word) ==
            IF CountSeverity(issues, level) # 0
            THEN << <<ToString(CountSeverity(issues, level)), word>> >>
            ELSE <<>>
        parts == part("LOW", " low") \o part("MEDIUM", " medium")
                    \o part("HIGH", " high") \o part("CRITICAL", " critical")
        severity_text == IF parts # <<>> THEN JoinParts(parts) ELSE <<"0">>
        summary == IF issues = <<>>
                   THEN <<"No security issues detected.">>
                   ELSE <<"Found ", ToString(Len(issues)), " security issue(s): ">>
                            \o severity_text \o <<" severity.">>
    IN  summary \o completion_message(analyzer)

\* _generate_summary, as the fragments the text is put together from
_generate_summary(issues, analyzer) ==
    LET part(level, word) ==
            IF CountSeverity(issues, level) # 0
            THEN << <<ToString(CountSeverity(issues, level)), word>> >>
            ELSE <<>>
        parts == part("CRITICAL", " critical") \o part("HIGH", " high")
                    \o part("MEDIUM", " medium") \o part("LOW", " low")
        severity_text == IF parts # <<>> THEN JoinParts(parts) ELSE <<"0">>
        summary == IF issues = <<>>
                   THEN <<"No security issues detected.">>
                   ELSE <<"Found ", ToString(Len(issues)), " security issue(s): ">>
                            \o severity_text \o <<" severity.">>
    IN  summary \o completion_message(analyzer)

\* AnalysisResult
AnalysisResult(language, issues, summary, analysis_metadata) ==
    [language |-> language, issues |-> issues, summary |-> summary,
     analysis_metadata |-> analysis_metadata]

\* The one element of a one-element set: { e(v) : v \in {x} } computes x once
\* and binds the result to v
The(S) == CHOOSE e \in S : TRUE

\* A variant of the result of the try block whose metadata always carries the
\* key `error`, empty when nothing failed
completed_with_error(analyzer, issues) ==
    AnalysisResult(get_language_type(analyzer), issues,
                   _generate_summary(issues, analyzer),
                   [total_issues       |-> Len(issues),
                    critical_count     |-> CountSeverity(issues, "CRITICAL"),
                    high_count         |-> CountSeverity(issues, "HIGH"),
                    medium_count       |-> CountSeverity(issues, "MEDIUM"),
                    low_count          |-> CountSeverity(issues, "LOW"),
                    analyzer           |-> analyzer,
                    status             |-> "COMPLETED",
                    error              |-> <<>>,
                    completion_message |-> "Analysis finished successfully"])

\* The result analyze returns at the end of its try block
completed(analyzer, issues) ==
    AnalysisResult(get_language_type(analyzer), issues,
                   _generate_summary(issues, analyzer),
                   [total_issues       |-> Len(issues),
                    critical_count     |-> CountSeverity(issues, "CRITICAL"),
                    high_count         |-> CountSeverity(issues, "HIGH"),
                    medium_count       |-> CountSeverity(issues, "MEDIUM"),
                    low_count          |-> CountSeverity(issues, "LOW"),
                    analyzer           |-> analyzer,
                    status             |-> "COMPLETED",
                    completion_message |-> "Analysis finished successfully"])

\* The try block of analyze from the point where analyze_code has resolved:
\* llm_response, issues_data and issues in turn, an exception of a stage ending
\* the block
analyze_body(analyzer, file_path, reply) ==
    The({ IF llm_response.raised THEN llm_response
          ELSE The({ IF issues_data.raised THEN issues_data
                     ELSE The({ Return(completed(analyzer, issues)) :
                                issues \in {_create_security_issues(issues_data.value,
                                                                    file_path)} }) :
                     issues_data \in {parse_llm_response(llm_response.value)} }) :
          llm_response \in {analyze_code(reply)} })

\* A variant of analyze whose except clause is missing
analyze_uncaught(analyzer, file_path, reply) == analyze_body(analyzer, file_path, reply)

\* analyze, from the reply on: the try block, and `except Exception as e`, which
\* returns the failure result
analyze(analyzer, file_path, reply) ==
    The({ IF r.raised
          THEN Return(AnalysisResult(get_language_type(analyzer), <<>>,
                                     <<"Analysis failed", ": ">> \o r.msg,
                                     [error |-> r.msg, analyzer |-> analyzer]))
          ELSE r :
          r \in {analyze_body(analyzer, file_path, reply)} })

---------------------------------------------------------------------------
(* AeyeGuard_mcp.py: the service, its lifespan and POST /analyze           *)

\* AnalysisRequest.language: Optional[str] = "auto"
Hint(s) == [present |-> TRUE, text |-> s]

NoHint == [present |-> FALSE, text |-> ""]

\* self.analyzers
analyzers ==
    [csharp           |-> "CSharpSecurityAnalyzer",
     react_typescript |-> "ReactTypeScriptAnalyzer",
     react_javascript |-> "ReactJavaScriptAnalyzer",
     java             |-> "JavaSecurityAnalyzer"]

\* A variant of the hint's conversion that takes an unregistered id for java
to_language_java(text) ==
    IF \E k \in 1..Len(LanguageType) : LanguageType[k] = text THEN text ELSE "java"

\* LanguageType(request.language), UNKNOWN on ValueError
to_language(text) ==
    IF \E k \in 1..Len(LanguageType) : LanguageType[k] = text THEN text ELSE UNKNOWN

\* A variant of the choice of the language that asks the detector first and
\* turns to the hint when detection finds nothing
detected_lang_detecting(request) ==
    IF detect_language(request.code, request.file_path) # UNKNOWN
          \/ ~request.language.present
    THEN detect_language(request.code, request.file_path)
    ELSE to_language(request.language.text)

\* analyze_security: the language the request resolves to
detected_lang(request) ==
    IF (request.language.present /\ request.language.text = "auto")
          \/ ~request.language.present \/ request.language.text = ""
    THEN detect_language(request.code, request.file_path)
    ELSE to_language(request.language.text)

\* An HTTP response: an error with its detail, or 200 with an AnalysisResponse
NoBody == [language |-> "", summary |-> <<>>, issues |-> <<>>,
           metadata |-> [analyzer |-> ""], completion_status |-> ""]

NoResponse == [status |-> 0, detail |-> <<>>, body |-> NoBody]

HTTPException(status_code, detail) == [status |-> status_code, detail |-> detail, body |-> NoBody]

\* A variant of the response whose completion_status tells a failed analysis
AnalysisResponse_honest(result) ==
    [status |-> 200, detail |-> <<>>,
     body   |-> [language          |-> result.language,
                 summary           |-> result.summary,
                 issues            |-> result.issues,
                 metadata          |-> result.analysis_metadata,
                 completion_status |-> IF "error" \in DOMAIN result.analysis_metadata
                                       THEN "ANALYSIS FAILED"
                                       ELSE "ANALYSIS FINISHED SUCCESSFULLY"]]

\* AnalysisResponse, returned with status 200 (completion_status without the
\* check-mark sign the literal starts with)
AnalysisResponse(result) ==
    [status |-> 200, detail |-> <<>>,
     body   |-> [language          |-> result.language,
                 summary           |-> result.summary,
                 issues            |-> result.issues,
                 metadata          |-> result.analysis_metadata,
                 completion_status |-> "ANALYSIS FINISHED SUCCESSFULLY"]]

\* analyze_security once analyzer.analyze has ended: the response built from
\* its result; an exception that left it becomes a 500
respond(outcome) ==
    IF outcome.raised
    THEN HTTPException(500, <<"Analysis failed: ">> \o outcome.msg)
    ELSE AnalysisResponse(outcome.value)

\* A variant of the handlers' check that takes the service for initialized
initialized_always(instance) == TRUE

\* The handlers' check of the global: `if service_instance is None: raise 503`
initialized(instance) == instance # "None"

\* A request not yet received
Idle == [pc |-> "idle", request |-> [code |-> <<>>, file_path |-> None, language |-> NoHint],
         analyzer |-> "", stages |-> <<>>, sent |-> <<>>, reply |-> ReadTimeout,
         outcome |-> Return(<<>>), response |-> NoResponse]

RequestIds == {1, 2}

\* The requests, remote replies and reply texts the service is run on
SpecCodes == { <<"plain">>, <<"using", "plain">> }

U_cs == <<"U", ".", "c", "s">>

SpecPaths == { None, Some(U_cs), Some(<<"n", ".", "m", "d">>) }

Hints == { NoHint, Hint(""), Hint("auto"), Hint("java"), Hint("cobol"), Hint("unknown") }

Requests == [code : SpecCodes, file_path : SpecPaths, language : Hints]

ReplyTexts ==
    { <<"[", "]">>,
      <<"n", "o", "n", "e">>,
      <<"[", "{", "}", ",", "1", "]">>,
      <<"{", "\"", "a", "\"", ":", "[", "{", "}", "]", "}">>,
      <<"[", "{", "\"", "s", "e", "v", "e", "r", "i", "t", "y", "\"", ":",
        "\"", "h", "i", "g", "h", "\"", "}", "]">> }

Replies ==
    { ConnectError, ReadTimeout,
      HttpReply(500, "", NotText),
      HttpReply(200, "not_json", NotText),
      HttpReply(200, "no_choices", NotText),
      HttpReply(200, "content", NotText) }
        \cup {HttpReply(200, "content", Text(t)) : t \in ReplyTexts}

\* What the remote model's endpoint answers to GET /v1/models: the connection
\* fails, the 5 s timeout expires, or an HTTP reply arrives with a status and a
\* body: not JSON, JSON that is no object, or a JSON object with or without
\* the key "data"
ProbeReply(status, body, data) ==
    [kind |-> "http", status |-> status, body |-> body, data |-> data]

ProbeConnectError == [kind |-> "connect_error", status |-> 0, body |-> "", data |-> <<>>]

ProbeTimeout == [kind |-> "timeout", status |-> 0, body |-> "", data |-> <<>>]

\* The dict health_check returns from its except clause
unhealthy(error) ==
    [status |-> "unhealthy", available |-> FALSE, error |-> error,
     base_url |-> "http://localhost:1234"]

\* A variant of LLMService.health_check that looks at the connection only
llm_health_check_connected(reply) ==
    IF reply.kind = "http"
    THEN [status |-> "healthy", available |-> TRUE, models |-> reply.data,
          base_url |-> "http://localhost:1234"]
    ELSE unhealthy(<<"All connection attempts failed">>)

\* LLMService.health_check once client.get has resolved: raise_for_status,
\* response.json(), models.get("data", []); every exception gives the
\* unhealthy dict
llm_health_check(reply) ==
    CASE reply.kind = "connect_error" -> unhealthy(<<"All connection attempts failed">>)
      [] reply.kind = "timeout" -> unhealthy(<<>>)
      [] reply.kind = "http" /\ reply.status \notin 200..299 ->
            unhealthy(<<"HTTP status ", ToString(reply.status)>>)
      [] reply.kind = "http" /\ reply.status \in 200..299 /\ reply.body = "not_json" ->
            unhealthy(<<"Expecting value">>)
      [] reply.kind = "http" /\ reply.status \in 200..299 /\ reply.body = "not_object" ->
            unhealthy(<<"'list' object has no attribute 'get'">>)
      [] OTHER -> [status |-> "healthy", available |-> TRUE, models |-> reply.data,
                   base_url |-> "http://localhost:1234"]

\* The probe outcomes the endpoints are run on
Probes ==
    { ProbeConnectError, ProbeReply(500, "", <<>>), ProbeReply(200, "not_json", <<>>),
      ProbeReply(200, "object", <<"qwen">>) }

\* [lang.value for lang in LanguageType if lang != LanguageType.UNKNOWN]
supported_languages == SelectSeq(LanguageType, LAMBDA lang : lang # UNKNOWN)

\* SecurityAnalyzerMCP.health_check once the probe has resolved, as the
\* handler's response
health_check(probe) ==
    [status |-> 200, detail |-> <<>>,
     body   |-> [status              |-> IF llm_health_check(probe).available
                                         THEN "healthy" ELSE "degraded",
                 llm_service         |-> llm_health_check(probe),
                 supported_languages |-> supported_languages]]

\* A variant of list_supported_languages that does not skip UNKNOWN
list_supported_languages_all ==
    [k \in 1..Len(LanguageType) |->
        [language           |-> LanguageType[k],
         extensions         |-> get_supported_extensions(LanguageType[k]),
         analyzer_available |-> LanguageType[k] \in DOMAIN analyzers]]

\* SecurityAnalyzerMCP.list_supported_languages: one LanguageInfo per member of
\* LanguageType other than UNKNOWN
list_supported_languages ==
    [k \in 1..Len(supported_languages) |->
        [language           |-> supported_languages[k],
         extensions         |-> get_supported_extensions(supported_languages[k]),
         analyzer_available |-> supported_languages[k] \in DOMAIN analyzers]]

\* The 503 of the three handlers
NotInitialized == [status |-> 503, detail |-> <<"Service not initialized">>, body |-> <<>>]

\* GET requests not yet received
IdleGets ==
    [health    |-> [pc |-> "idle", probes |-> 0, response |-> [status |-> 0]],
     languages |-> [pc |-> "idle", response |-> [status |-> 0]]]

Init ==
    /\ call = [fn |-> "none"]
    /\ ret = [done |-> FALSE]
    /\ lifespan = "before"
    /\ service_instance = "None"
    /\ req = [r \in RequestIds |-> Idle]
    /\ gets = IdleGets

\* lifespan, up to its yield: the service instance is made.  (The server hands
\* no request to a handler before the yield, so the initial health check that
\* lifespan awaits in between, and only logs, is no point where a handler runs.)
Startup ==
    /\ lifespan = "before"
    /\ lifespan' = "running"
    /\ service_instance' = "SecurityAnalyzerMCP"
    /\ UNCHANGED <<call, ret, req, gets>>

\* lifespan, after its yield
Shutdown ==
    /\ lifespan = "running"
    /\ lifespan' = "after"
    /\ service_instance' = "None"
    /\ UNCHANGED <<call, ret, req, gets>>

\* POST /analyze, up to its suspension: the handler's check of the service
\* instance, analyze_security's choice of the analyzer, and analyze up to the
\* point where the chat-completion request is sent
PostAnalyze(r, request) ==
    /\ req[r].pc = "idle"
    /\ LET lang == detected_lang(request)
           me   == [req[r] EXCEPT !.request = request]
       IN  req' = [req EXCEPT ![r] =
                IF ~initialized(service_instance)
                THEN [me EXCEPT !.pc = "done",
                                !.response = HTTPException(503, <<"Service not initialized">>)]
                ELSE IF lang = UNKNOWN
                THEN [me EXCEPT !.pc = "done",
                                !.response = HTTPException(400,
                                    <<"Unable to detect language or unsupported language type.">>)]
                ELSE IF lang \notin DOMAIN analyzers
                THEN [me EXCEPT !.pc = "done",
                                !.response = HTTPException(400,
                                    <<"No analyzer available for ", lang>>)]
                ELSE [me EXCEPT !.pc = "awaiting",
                                !.analyzer = analyzers[lang],
                                !.stages = <<"Preprocess", "Invoke">>,
                                !.sent = Append(@, preprocess_of(analyzers[lang],
                                                                 CodeText(request.code)))]]
    /\ UNCHANGED <<call, ret, lifespan, service_instance, gets>>

\* The stages of analyze a request has entered, after its chat-completion call
\* has resolved: parse_llm_response is called when analyze_code has returned,
\* and not when it has raised
stages_run(stages, reply) ==
    IF analyze_code(reply).raised THEN stages ELSE Append(stages, "Normalize")

\* A variant of the handling of the reply that sends the request once more
\* when the call has failed
on_reply_retrying(me, reply) ==
    IF analyze_code(reply).raised /\ Len(me.sent) < 2
    THEN [me EXCEPT !.sent = Append(@, me.sent[1])]
    ELSE The({ [me EXCEPT !.pc = "done", !.reply = reply, !.outcome = outcome,
                          !.response = respond(outcome)] :
               outcome \in {analyze(me.analyzer, me.request.file_path, reply)} })

\* A variant of the handling of the reply that takes the analyzer and the path
\* from a slot the service shares among its requests, set by the request
\* received last (here: any request still in flight)
on_reply_shared(me, reply) ==
    LET inflight == {q \in DOMAIN req : req[q].pc = "awaiting" /\ req[q] # me}
        current  == IF inflight = {} THEN me ELSE req[CHOOSE q \in inflight : TRUE]
    IN  The({ [me EXCEPT !.pc = "done", !.reply = reply, !.outcome = outcome,
                         !.response = respond(outcome)] :
              outcome \in {analyze(current.analyzer, current.request.file_path, reply)} })

\* A variant of the handling of the reply that goes on waiting when the call
\* has failed
on_reply_pending(me, reply) ==
    IF analyze_code(reply).raised
    THEN [me EXCEPT !.reply = reply]
    ELSE The({ [me EXCEPT !.pc = "done", !.reply = reply, !.outcome = outcome,
                          !.stages = stages_run(@, reply),
                          !.response = respond(outcome)] :
               outcome \in {analyze(me.analyzer, me.request.file_path, reply)} })

\* The request after its chat-completion call has resolved with the reply:
\* analyze_code, the rest of analyze and of analyze_security, and the response
on_reply(me, reply) ==
    The({ [me EXCEPT !.pc = "done", !.reply = reply, !.outcome = outcome,
                     !.stages = stages_run(@, reply),
                     !.response = respond(outcome)] :
          outcome \in {analyze(me.analyzer, me.request.file_path, reply)} })

\* The chat-completion request resolves
RemoteResolves(r, reply) ==
    /\ req[r].pc = "awaiting"
    /\ req' = [req EXCEPT ![r] = on_reply(@, reply)]
    /\ UNCHANGED <<call, ret, lifespan, service_instance, gets>>

\* GET /health, up to its suspension: the handler's check of the service
\* instance, then health_check up to the probe of the remote model
GetHealth ==
    /\ gets.health.pc = "idle"
    /\ gets' = [gets EXCEPT !.health =
                    IF ~initialized(service_instance)
                    THEN [@ EXCEPT !.pc = "done", !.response = NotInitialized]
                    ELSE [@ EXCEPT !.pc = "awaiting", !.probes = @ + 1]]
    /\ UNCHANGED <<call, ret, lifespan, service_instance, req>>

\* The probe resolves and health_check returns
HealthResolves(probe) ==
    /\ gets.health.pc = "awaiting"
    /\ gets' = [gets EXCEPT !.health = [@ EXCEPT !.pc = "done",
                                                 !.response = health_check(probe)]]
    /\ UNCHANGED <<call, ret, lifespan, service_instance, req>>

\* GET /languages: the handler's check and list_supported_languages, which
\* awaits nothing
GetLanguages ==
    /\ gets.languages.pc = "idle"
    /\ gets' = [gets EXCEPT !.languages =
                    IF ~initialized(service_instance)
                    THEN [@ EXCEPT !.pc = "done", !.response = NotInitialized]
                    ELSE [@ EXCEPT !.pc = "done",
                                   !.response = [status |-> 200, detail |-> <<>>,
                                                 body   |-> list_supported_languages]]]
    /\ UNCHANGED <<call, ret, lifespan, service_instance, req>>

Next ==
    \/ Startup
    \/ Shutdown
    \/ \E r \in RequestIds, request \in Requests : PostAnalyze(r, request)
    \/ \E r \in RequestIds, reply \in Replies : RemoteResolves(r, reply)

Spec == Init /\ [][Next]_vars

\* Spec with every pending chat-completion call resolving: the call is made
\* under `timeout=120.0`, so the reply, an error or the timeout arrives
SpecLive ==
    /\ Init
    /\ [][Next]_vars
    /\ \A r \in RequestIds : WF_vars(\E reply \in Replies : RemoteResolves(r, reply))

\* The three endpoints over the lifespan, with one request of each kind
NextEndpoints ==
    \/ Startup
    \/ Shutdown
    \/ \E request \in Requests : PostAnalyze(1, request)
    \/ \E reply \in Replies : RemoteResolves(1, reply)
    \/ GetHealth
    \/ \E probe \in Probes : HealthResolves(probe)
    \/ GetLanguages

SpecEndpoints == Init /\ [][NextEndpoints]_vars

---------------------------------------------------------------------------
(* The service's failure handling                                          *)

\* The requests whose analyzer has returned or raised
Analyzed == {r \in RequestIds : req[r].pc = "done" /\ req[r].analyzer # ""}

\* The remote reply makes the chat-completion call fail: no connection, the
\* timeout, an error status, a body that is no JSON or lacks the content
GatewayFails(reply) ==
    \/ reply.kind # "http"
    \/ reply.status \notin 200..299
    \/ reply.body # "content"

\* A stage of analyze raises on the reply: the call fails, or the content is
\* null and parsing it raises
StageRaises(reply) == GatewayFails(reply) \/ ~reply.content.is_text

\* C1: analyze never raises; when one of its stages raises it returns a result
\* with no issues, a summary starting with "Analysis failed", and metadata whose
\* key `error` holds the exception's text.
C1_AnalyzeNeverRaises ==
    \A r \in Analyzed :
        /\ ~req[r].outcome.raised
        /\ StageRaises(req[r].reply) =>
              LET result == req[r].outcome.value
                  raised == analyze_body(req[r].analyzer, req[r].request.file_path,
                                         req[r].reply)
              IN  /\ result.issues = <<>>
                  /\ result.summary[1] = "Analysis failed"
                  /\ "error" \in DOMAIN result.analysis_metadata
                  /\ raised.raised
                  /\ result.analysis_metadata.error = raised.msg
                  /\ result.summary = <<"Analysis failed", ": ">> \o raised.msg

\* C1 witness: the chat-completion call timed out and analyze returned the
\* failure result.
C1_Witness ==
    \E r \in Analyzed :
        /\ req[r].reply = ReadTimeout
        /\ ~req[r].outcome.raised
        /\ req[r].outcome.value.issues = <<>>
        /\ req[r].outcome.value.summary[1] = "Analysis failed"
        /\ req[r].outcome.value.analysis_metadata.error[1] = "LLM analysis failed: "

\* C2: a request that reached an analyzer and whose chat-completion call failed
\* is answered with status 200, no issues, a summary containing "Analysis
\* failed" and metadata.error set; never with a 4xx or 5xx.
C2_GatewayFailureIs200 ==
    \A r \in Analyzed :
        GatewayFails(req[r].reply) =>
            /\ req[r].response.status = 200
            /\ req[r].response.body.issues = <<>>
            /\ \E k \in 1..Len(req[r].response.body.summary) :
                  req[r].response.body.summary[k] = "Analysis failed"
            /\ "error" \in DOMAIN req[r].response.body.metadata
            /\ req[r].response.body.metadata.error # <<>>

\* C2 witness: a request for a file ending in .cs, the connection to the remote
\* model refused, answered 200 with the failure inside the body.
C2_Witness ==
    \E r \in Analyzed :
        /\ req[r].request.file_path = Some(U_cs)
        /\ req[r].request.language = Hint("auto")
        /\ req[r].analyzer = "CSharpSecurityAnalyzer"
        /\ req[r].reply = ConnectError
        /\ req[r].response.status = 200
        /\ req[r].response.body.language = "csharp"
        /\ req[r].response.body.issues = <<>>
        /\ "error" \in DOMAIN req[r].response.body.metadata

---------------------------------------------------------------------------
(* The converter's specification: _create_security_issues, _generate_summary *)
(* and the end of analyze's try block, called on bounded arguments          *)

MaxRecords == 2

MaxIssues == 4

\* A field of a raw record: absent, or present with one of the values
Field(key, values) == { <<>> } \cup { << <<key, v>> >> : v \in values }

T_high == <<"h", "i", "g", "h">>

T_High == <<"H", "i", "g", "h">>

T_low == <<"l", "o", "w">>

T_urgent == <<"u", "r", "g", "e", "n", "t">>

T_X1 == <<"X", "1">>

T_r_cs == <<"r", ".", "c", "s">>

\* The raw records the converter is called on: objects with or without a
\* severity (in lower, mixed and upper case, unknown, null, a number), an id
\* (text, a number) and a file_path, and elements that are no objects
SeverityFields == Field(K_severity, { Str(T_High), Num(<<"3">>) })

OtherSeverities ==
    { Str(T_high), Str(SeverityText["CRITICAL"]), Str(T_low), Str(T_urgent), NoValue }

IdFields == Field(K_id, { Str(T_X1), Num(<<"7">>) })

PathFields == Field(K_file_path, { Str(T_r_cs) })

RawRecords ==
    { Obj(s \o i \o p) : s \in SeverityFields, i \in IdFields, p \in PathFields }
        \cup { Obj(<< <<K_severity, v>> >>) : v \in OtherSeverities }
        \cup { Num(<<"1">>), Str(T_high) }

\* The caller's file_path: none, empty, or a path
DefaultPaths == { None, Some(<<>>), Some(U_cs) }

\* A SecurityIssue of a severity, its other fields defaulted
IssueOf(level) ==
    [id            |-> Str(T_X1),
     title         |-> Str(<<"Security Issue">>),
     description   |-> Str(<<"No description provided">>),
     severity      |-> level,
     line_number   |-> NoValue,
     column_number |-> NoValue,
     file_path     |-> NoValue,
     code_snippet  |-> NoValue,
     remediation   |-> NoValue,
     references    |-> Arr(<<>>)]

\* The orders of severities the summary is called on
SeverityLists == SeqsUpTo(SeverityLevel, MaxIssues)

IssueLists == { [k \in 1..Len(l) |-> IssueOf(l[k])] : l \in SeverityLists }

InitConvert ==
    /\ ServiceAbsent
    /\ \/ call \in [fn : {"_create_security_issues"},
                    issues_data : SeqsUpTo(RawRecords, MaxRecords), file_path : DefaultPaths]
       \/ call \in [fn : {"analyze"}, analyzer : Analyzers,
                    issues_data : SeqsUpTo(RawRecords, MaxRecords), file_path : DefaultPaths]
       \/ call \in [fn : {"_generate_summary"}, analyzer : Analyzers, issues : IssueLists]
    /\ ret = [done |-> FALSE]

Call_create_security_issues ==
    /\ call.fn = "_create_security_issues"
    /\ ~ret.done
    /\ ret' = [done |-> TRUE,
               value |-> _create_security_issues(call.issues_data, call.file_path)]
    /\ UNCHANGED <<call, service_vars>>

Call_generate_summary ==
    /\ call.fn = "_generate_summary"
    /\ ~ret.done
    /\ ret' = [done |-> TRUE, value |-> _generate_summary(call.issues, call.analyzer)]
    /\ UNCHANGED <<call, service_vars>>

\* analyze from the conversion of the parsed records to the return of its result
Call_analyze_completes ==
    /\ call.fn = "analyze"
    /\ ~ret.done
    /\ \E issues \in {_create_security_issues(call.issues_data, call.file_path)} :
          ret' = [done |-> TRUE, value |-> completed(call.analyzer, issues)]
    /\ UNCHANGED <<call, service_vars>>

NextConvert ==
    \/ Call_create_security_issues
    \/ Call_generate_summary
    \/ Call_analyze_completes

SpecConvert == InitConvert /\ [][NextConvert]_vars

---------------------------------------------------------------------------
(* Claims about the converter (checked under SpecConvert)                  *)

ConvertDone == ret.done /\ call.fn = "_create_security_issues"

\* The record is an object whose fields, the severity aside, are of the types
\* SecurityIssue accepts
FieldsAccepted(rec) ==
    /\ rec.kind = "object"
    /\ Has(rec, K_id) => Get(rec, K_id, NoValue).kind = "string"
    /\ Has(rec, K_file_path) => Get(rec, K_file_path, NoValue).kind \in {"string", "none"}

\* The record's severity is absent or is text
SeverityAccepted(rec) ==
    Has(rec, K_severity) => Get(rec, K_severity, NoValue).kind = "string"

Converts(rec) == FieldsAccepted(rec) /\ SeverityAccepted(rec)

\* The place in the result of the issue of the i-th record, the records that
\* do not convert being left out
Place(issues_data, i) == Cardinality({j \in 1..i : Converts(issues_data[j])})

\* The level a severity text names, letter case aside; MEDIUM when it names none
LevelNamed(text) ==
    IF \E l \in SeverityLevel : Lower(SeverityText[l]) = Lower(text)
    THEN CHOOSE l \in SeverityLevel : Lower(SeverityText[l]) = Lower(text)
    ELSE "MEDIUM"

\* C11: a record whose severity is absent or is text that names no level yields
\* an issue of severity MEDIUM and is not dropped; text that names a level in
\* any letter case yields that level.
C11_SeverityCoercion ==
    ConvertDone =>
        \A i \in 1..Len(call.issues_data) :
            LET rec == call.issues_data[i]
                at  == Place(call.issues_data, i)
            IN  (FieldsAccepted(rec) /\ SeverityAccepted(rec)) =>
                    /\ at \in 1..Len(ret.value)
                    /\ ret.value[at].severity =
                          IF Has(rec, K_severity)
                          THEN LevelNamed(Get(rec, K_severity, NoValue).lit)
                          ELSE "MEDIUM"

\* C11 witness: "urgent" became MEDIUM, "High" became HIGH, and both records
\* were kept.
C11_Witness ==
    /\ ConvertDone
    /\ call.issues_data = << Obj(<< <<K_severity, Str(T_urgent)>> >>),
                             Obj(<< <<K_severity, Str(T_High)>> >>) >>
    /\ Len(ret.value) = 2
    /\ ret.value[1].severity = "MEDIUM"
    /\ ret.value[2].severity = "HIGH"

\* C12: the caller's default path is attached only to an issue whose record
\* carries no file_path; a record with a file_path of its own keeps it, even
\* when a default path is supplied.
C12_RecordPathKept ==
    ConvertDone =>
        \A i \in 1..Len(call.issues_data) :
            LET rec == call.issues_data[i]
                at  == Place(call.issues_data, i)
            IN  Converts(rec) =>
                    /\ at \in 1..Len(ret.value)
                    /\ ret.value[at].file_path =
                          IF Has(rec, K_file_path) THEN Get(rec, K_file_path, NoValue)
                          ELSE IF Truthy(call.file_path) THEN Str(call.file_path.text)
                          ELSE NoValue

\* C13: a record without an id yields an issue, not dropped, whose identifier
\* is a generated non-empty text; a record with a text id keeps it.
C13_IdentifierFilled ==
    ConvertDone =>
        \A i \in 1..Len(call.issues_data) :
            LET rec == call.issues_data[i]
                at  == Place(call.issues_data, i)
            IN  Converts(rec) =>
                    /\ at \in 1..Len(ret.value)
                    /\ ret.value[at].id.kind = "string"
                    /\ ret.value[at].id.lit # <<>>
                    /\ Has(rec, K_id) => ret.value[at].id = Get(rec, K_id, NoValue)
                    /\ ~Has(rec, K_id) =>
                          SubSeq(ret.value[at].id.lit, 1, 4) = <<"S", "E", "C", "-">>

\* C13 witness: of two records, the one without an id got a generated one and
\* the one with the id "X1" kept it.
C13_Witness ==
    /\ ConvertDone
    /\ call.issues_data = << Obj(<<>>), Obj(<< <<K_id, Str(T_X1)>> >>) >>
    /\ Len(ret.value) = 2
    /\ ret.value[1].id.lit # <<>>
    /\ ret.value[1].id # Str(T_X1)
    /\ ret.value[2].id = Str(T_X1)

\* Two issues are the same, an identifier generated for the record aside
SameIssue(a, b, rec) ==
    IF Has(rec, K_id) THEN a = b ELSE [a EXCEPT !.id = NoValue] = [b EXCEPT !.id = NoValue]

\* C14: the result holds exactly the issues of the records that convert, in the
\* records' order; a malformed record is dropped, and the issue of every other
\* record is the one it yields when converted alone.
C14_BadRecordsDropped ==
    ConvertDone =>
        LET data == call.issues_data
            kept == {i \in 1..Len(data) : Converts(data[i])}
        IN  /\ Len(ret.value) = Cardinality(kept)
            /\ \A i \in 1..Len(data) :
                  LET alone == _create_security_issues(<<data[i]>>, call.file_path)
                  IN  IF i \in kept
                      THEN /\ Len(alone) = 1
                           /\ SameIssue(ret.value[Place(data, i)], alone[1], data[i])
                      ELSE alone = <<>>

\* C14 witness: a batch whose first element is malformed (no object, or an id
\* that is a number) and whose second is a good record: the good record's
\* issue is the whole result.
C14_Witness ==
    /\ ConvertDone
    /\ Len(call.issues_data) = 2
    /\ call.issues_data[1] \in {Num(<<"1">>), Obj(<< <<K_id, Num(<<"7">>)>> >>)}
    /\ call.issues_data[2] = Obj(<< <<K_severity, Str(T_low)>> >>)
    /\ Len(ret.value) = 1
    /\ ret.value[1].severity = "LOW"

SummaryDone == ret.done /\ call.fn = "_generate_summary"

\* The severities from the highest down, with the words the summary uses
LevelOrder == << <<"CRITICAL", " critical">>, <<"HIGH", " high">>,
                 <<"MEDIUM", " medium">>, <<"LOW", " low">> >>

HowMany(issues, level) == Cardinality({k \in 1..Len(issues) : issues[k].severity = level})

\* "<n> <level>" for the levels from the k-th on whose count is not zero,
\* each after the first (first = FALSE) preceded by ", "
RECURSIVE Listing(_, _, _)
Listing(issues, k, first) ==
    IF k > Len(LevelOrder) THEN <<>>
    ELSE IF HowMany(issues, LevelOrder[k][1]) = 0 THEN Listing(issues, k + 1, first)
    ELSE (IF first THEN <<>> ELSE <<", ">>)
            \o <<ToString(HowMany(issues, LevelOrder[k][1])), LevelOrder[k][2]>>
            \o Listing(issues, k + 1, FALSE)

SummaryHead(issues) ==
    IF issues = <<>> THEN <<"No security issues detected.">>
    ELSE <<"Found ", ToString(Len(issues)), " security issue(s): ">>
            \o Listing(issues, 1, TRUE) \o <<" severity.">>

\* C15: the summary begins with "No security issues detected." for no issues,
\* and otherwise with "Found <total> security issue(s): ", one "<n> <level>" for
\* each severity present, from critical down to low, joined by ", ", and
\* " severity.".
C15_SummaryText ==
    SummaryDone =>
        /\ Len(ret.value) >= Len(SummaryHead(call.issues))
        /\ SubSeq(ret.value, 1, Len(SummaryHead(call.issues))) = SummaryHead(call.issues)

\* C15 witness: 1 CRITICAL, 2 HIGH and 1 LOW, given lowest first, are summed up
\* as "Found 4 security issue(s): 1 critical, 2 high, 1 low severity.".
C15_Witness ==
    /\ SummaryDone
    /\ Len(call.issues) = 4
    /\ call.issues[1].severity = "LOW"
    /\ call.issues[2].severity = "HIGH"
    /\ call.issues[3].severity = "HIGH"
    /\ call.issues[4].severity = "CRITICAL"
    /\ SubSeq(ret.value, 1, 10) =
          <<"Found ", "4", " security issue(s): ", "1", " critical", ", ",
            "2", " high", ", ", "1">>
    /\ SubSeq(ret.value, 11, 12) = <<" low", " severity.">>

AnalyzeCompleted == ret.done /\ call.fn = "analyze"

\* C16: in the result of a completed analysis every issue's severity is one of
\* the four levels; total_issues is the number of issues and the sum of the four
\* counts, each the number of issues of its severity; the metadata names the
\* analyzer and the status COMPLETED.
C16_MetadataCounts ==
    AnalyzeCompleted =>
        LET issues == ret.value.issues
            md     == ret.value.analysis_metadata
        IN  /\ \A k \in 1..Len(issues) : issues[k].severity \in SeverityLevel
            /\ md.total_issues = Len(issues)
            /\ md.critical_count = HowMany(issues, "CRITICAL")
            /\ md.high_count = HowMany(issues, "HIGH")
            /\ md.medium_count = HowMany(issues, "MEDIUM")
            /\ md.low_count = HowMany(issues, "LOW")
            /\ md.total_issues =
                  md.critical_count + md.high_count + md.medium_count + md.low_count
            /\ md.analyzer = call.analyzer
            /\ md.status = "COMPLETED"

\* C16 witness: two records of severity "high" and "High": two issues, both
\* HIGH, counted as such.
C16_Witness ==
    /\ AnalyzeCompleted
    /\ call.analyzer = "JavaSecurityAnalyzer"
    /\ call.issues_data = << Obj(<< <<K_severity, Str(T_high)>> >>),
                             Obj(<< <<K_severity, Str(T_High)>> >>) >>
    /\ Len(ret.value.issues) = 2
    /\ ret.value.analysis_metadata.total_issues = 2
    /\ ret.value.analysis_metadata.high_count = 2
    /\ ret.value.analysis_metadata.medium_count = 0
    /\ ret.value.analysis_metadata.analyzer = "JavaSecurityAnalyzer"

---------------------------------------------------------------------------
(* Claims about POST /analyze (checked under Spec) and about the three     *)
(* endpoints over the lifespan (checked under SpecEndpoints)               *)

\* C17: no retry: an analyze call sends at most one chat-completion request;
\* while it awaits the reply and after the reply, whatever it was, exactly one
\* has been sent.
C17_NoRetry ==
    \A r \in RequestIds :
        /\ Len(req[r].sent) <= 1
        /\ req[r].pc = "awaiting" => Len(req[r].sent) = 1
        /\ r \in Analyzed => Len(req[r].sent) = 1
        /\ (req[r].pc = "done" /\ req[r].analyzer = "") => req[r].sent = <<>>

\* C17 witness: both requests have ended after a failure of their call, one on
\* a 500 and one on a timeout, each having sent one request.
C17_Witness ==
    /\ Analyzed = RequestIds
    /\ req[1].reply = HttpReply(500, "", NotText)
    /\ req[2].reply = ReadTimeout
    /\ \A r \in RequestIds :
          /\ Len(req[r].sent) = 1
          /\ req[r].outcome.value.summary[1] = "Analysis failed"

\* The request asks for detection: no hint, an empty one, or "auto"
AsksDetection(request) ==
    ~request.language.present \/ request.language.text \in {"", "auto"}

\* The request's language resolves to Unknown: detection finds neither a
\* registered extension on the path nor a signature in the code, or the hint
\* is no registered language id
ResolvesUnknown(request) ==
    IF AsksDetection(request)
    THEN /\ ~Truthy(request.file_path)
            \/ Extension(request.file_path.text) \notin RegisteredExtensions
         /\ NoSignature(request.code)
    ELSE \A k \in 1..Len(ScoredLangs) : ScoredLangs[k] # request.language.text

\* C18: a POST /analyze received by the initialized service whose language
\* resolves to Unknown ends at once with a 400 (not a 500), without an analyzer
\* having run or a request having been sent to the remote model.
C18_UnknownLanguageIs400 ==
    [][\A r \in RequestIds :
          (/\ req[r].pc = "idle"
           /\ req'[r].pc # "idle"
           /\ service_instance # "None"
           /\ ResolvesUnknown(req'[r].request))
          => /\ req'[r].pc = "done"
             /\ req'[r].response.status = 400
             /\ req'[r].analyzer = ""
             /\ req'[r].sent = <<>>]_vars

\* C18 witness: on the running service, a request with the hint "cobol" and a
\* request for detection with plain code and an .md path were both answered
\* 400 with nothing sent.
C18_Witness ==
    /\ lifespan = "running"
    /\ req[1].pc = "done"
    /\ req[1].request.language = Hint("cobol")
    /\ req[2].pc = "done"
    /\ req[2].request = [code |-> <<"plain">>, file_path |-> Some(<<"n", ".", "m", "d">>),
                         language |-> Hint("auto")]
    /\ \A r \in RequestIds :
          /\ req[r].response.status = 400
          /\ req[r].analyzer = ""
          /\ req[r].sent = <<>>

\* C19: a GET /health, POST /analyze or GET /languages received while the
\* service is not initialized (before startup, after shutdown) is answered 503
\* at once, with no detection, analyzer or remote call; one received between
\* startup and shutdown is never answered with that 503.
C19_Uninitialized503 ==
    [][/\ (gets.health.pc = "idle" /\ gets'.health.pc # "idle") =>
            IF lifespan # "running"
            THEN /\ gets'.health.pc = "done"
                 /\ gets'.health.response = NotInitialized
                 /\ gets'.health.probes = 0
            ELSE /\ gets'.health.pc = "awaiting"
                 /\ gets'.health.probes = 1
       /\ (gets.health.pc = "awaiting" /\ gets'.health.pc = "done") =>
            gets'.health.response.status = 200
       /\ (gets.languages.pc = "idle" /\ gets'.languages.pc # "idle") =>
            /\ gets'.languages.pc = "done"
            /\ gets'.languages.response.status = IF lifespan # "running" THEN 503 ELSE 200
       /\ \A r \in RequestIds :
            /\ (req[r].pc = "idle" /\ req'[r].pc # "idle") =>
                  IF lifespan # "running"
                  THEN /\ req'[r].pc = "done"
                       /\ req'[r].response.status = 503
                       /\ req'[r].response.detail = <<"Service not initialized">>
                       /\ req'[r].analyzer = ""
                       /\ req'[r].sent = <<>>
                  ELSE req'[r].response.status # 503
            /\ (req[r].pc = "awaiting" /\ req'[r].pc = "done") =>
                  req'[r].response.status # 503]_vars

\* C19 witness: after shutdown, all three endpoints have answered 503 and
\* nothing was sent to the remote model.
C19_Witness ==
    /\ lifespan = "after"
    /\ service_instance = "None"
    /\ gets.health.pc = "done"
    /\ gets.health.response.status = 503
    /\ gets.health.probes = 0
    /\ gets.languages.pc = "done"
    /\ gets.languages.response.status = 503
    /\ req[1].pc = "done"
    /\ req[1].response.status = 503
    /\ req[1].sent = <<>>

\* The members of LanguageType other than Unknown
KnownLanguages == {LanguageType[k] : k \in 1..Len(LanguageType)} \ {UNKNOWN}

\* C20: GET /languages on the initialized service returns one entry per member
\* of LanguageType other than Unknown, four in all, each with extensions and
\* with analyzer_available true.
C20_LanguagesListed ==
    (gets.languages.pc = "done" /\ gets.languages.response.status = 200) =>
        LET body == gets.languages.response.body
        IN  /\ Len(body) = Cardinality(KnownLanguages)
            /\ Len(body) = 4
            /\ {body[k].language : k \in 1..Len(body)} = KnownLanguages
            /\ \A k \in 1..Len(body) :
                  /\ body[k].extensions # <<>>
                  /\ \A j \in 1..Len(body[k].extensions) :
                        body[k].extensions[j] \in RegisteredExtensions
                  /\ body[k].analyzer_available

\* C20 witness: the running service has answered GET /languages with four
\* entries, the first being csharp with the extension .cs.
C20_Witness ==
    /\ lifespan = "running"
    /\ gets.languages.pc = "done"
    /\ gets.languages.response.status = 200
    /\ Len(gets.languages.response.body) = 4
    /\ gets.languages.response.body[1].language = "csharp"
    /\ gets.languages.response.body[1].extensions = << <<".", "c", "s">> >>
    /\ gets.languages.response.body[1].analyzer_available

---------------------------------------------------------------------------
(* The gateway's specification: analyze_code and health_check of           *)
(* LLMService, called on the outcomes of their HTTP request                *)

\* The statuses of the HTTP replies
Statuses == {200, 201, 204, 301, 404, 500}

ChatReplies ==
    { ConnectError, ReadTimeout }
        \cup { HttpReply(st, body, NotText) :
                    st \in Statuses, body \in {"not_json", "no_choices", "content"} }
        \cup { HttpReply(st, "content", Text(t)) : st \in Statuses, t \in ReplyTexts }

ProbeReplies ==
    { ProbeConnectError, ProbeTimeout }
        \cup { ProbeReply(st, body, <<>>) :
                    st \in Statuses, body \in {"not_json", "not_object", "object"} }
        \cup { ProbeReply(st, "object", <<"qwen">>) : st \in Statuses }

InitGateway ==
    /\ ServiceAbsent
    /\ \/ call \in [fn : {"analyze_code"}, reply : ChatReplies]
       \/ call \in [fn : {"health_check"}, reply : ProbeReplies]
    /\ ret = [done |-> FALSE]

Call_analyze_code ==
    /\ call.fn = "analyze_code"
    /\ ~ret.done
    /\ ret' = [done |-> TRUE, out |-> analyze_code(call.reply)]
    /\ UNCHANGED <<call, service_vars>>

Call_health_check ==
    /\ call.fn = "health_check"
    /\ ~ret.done
    /\ ret' = [done |-> TRUE, out |-> Return(llm_health_check(call.reply))]
    /\ UNCHANGED <<call, service_vars>>

NextGateway == Call_analyze_code \/ Call_health_check

SpecGateway == InitGateway /\ [][NextGateway]_vars

---------------------------------------------------------------------------
(* Claims about the gateway (checked under SpecGateway)                    *)

ProbeDone == ret.done /\ call.fn = "health_check"

\* The probe's request failed, or its reply is no 2xx, or the body is not
\* JSON or is JSON of another shape than an object
ProbeFails(reply) ==
    \/ reply.kind # "http"
    \/ reply.status \notin 200..299
    \/ reply.body \in {"not_json", "not_object"}

\* C21: health_check never raises; a connection failure, a timeout, a reply
\* that is no 2xx or a body of unexpected shape give a result with available
\* false and the error text; only a 2xx reply with a decodable body gives
\* available true.
C21_ProbeNeverRaises ==
    ProbeDone =>
        /\ ~ret.out.raised
        /\ ProbeFails(call.reply) =>
              /\ ~ret.out.value.available
              /\ "error" \in DOMAIN ret.out.value
              /\ ret.out.value.status = "unhealthy"
        /\ ret.out.value.available =>
              /\ call.reply.kind = "http"
              /\ call.reply.status \in 200..299
              /\ call.reply.body \notin {"not_json"}
              /\ ret.out.value.status = "healthy"

\* C21 witness: a 200 reply whose body is JSON but no object was reported as
\* unavailable, with the error of the failed lookup.
C21_Witness ==
    /\ ProbeDone
    /\ call.reply = ProbeReply(200, "not_object", <<>>)
    /\ ~ret.out.raised
    /\ ~ret.out.value.available
    /\ ret.out.value.error = <<"'list' object has no attribute 'get'">>

GatewayDone == ret.done /\ call.fn = "analyze_code"

\* C24: analyze_code reports every failure of the remote call (no connection,
\* timeout, a status that is no 2xx, a 2xx body without
\* choices[0].message.content) as one condition, an exception whose message
\* starts with "LLM analysis failed:"; it returns only for a 2xx reply, and
\* then the content unchanged.
C24_OneFailureCondition ==
    GatewayDone =>
        IF GatewayFails(call.reply)
        THEN /\ ret.out.raised
             /\ ret.out.exc = "Exception"
             /\ ret.out.msg # <<>>
             /\ ret.out.msg[1] = "LLM analysis failed: "
        ELSE /\ ~ret.out.raised
             /\ call.reply.status \in 200..299
             /\ ret.out.value = call.reply.content

\* C24 witness: a 404 reply was reported as the exception
\* "LLM analysis failed: ...".
C24_Witness ==
    /\ GatewayDone
    /\ call.reply = HttpReply(404, "content", Text(<<"[", "]">>))
    /\ ret.out.raised
    /\ ret.out.exc = "Exception"
    /\ ret.out.msg = <<"LLM analysis failed: ", "HTTP status ", "404">>

---------------------------------------------------------------------------
(* The pipeline behind POST /analyze: claims about Spec                    *)

\* The chat-completion call returned text: a 2xx reply whose content is text
RepliesText(reply) == ~GatewayFails(reply) /\ reply.content.is_text

\* The reply whose content is the text `[]`
EmptyArrayReply == HttpReply(200, "content", Text(<<"[", "]">>))

\* The result of a run that found nothing
CleanResult(result) ==
    /\ result.issues = <<>>
    /\ result.summary[1] = "No security issues detected."
    /\ "error" \notin DOMAIN result.analysis_metadata
    /\ result.analysis_metadata.status = "COMPLETED"
    /\ result.analysis_metadata.total_issues = 0

\* parse_llm_response finds no array in the text: neither the text from its
\* first `[` to its last `]` nor the whole text decodes to an array
NoArrayIn(t) == ~DecodesToArray(Bracketed(t)) /\ ~DecodesToArray(t)

\* C22, as stated: when the remote model replies with text that is not
\* decodable JSON or is not an array, analyze returns the result it returns
\* for a reply of `[]`: no issues, a summary beginning "No security issues
\* detected.", status "COMPLETED", total_issues 0 and no `error` key.
C22_NonArrayIsEmpty ==
    \A r \in Analyzed :
        (RepliesText(req[r].reply) /\ ~DecodesToArray(req[r].reply.content.text)) =>
            /\ req[r].outcome = analyze(req[r].analyzer, req[r].request.file_path,
                                        EmptyArrayReply)
            /\ CleanResult(req[r].outcome.value)

\* C22, amended: when the remote model replies with text in which no array is
\* found (neither the text from the first `[` to the last `]` nor the whole
\* text decodes to an array), analyze returns the result it returns for a
\* reply of `[]`: no issues, a summary beginning "No security issues
\* detected.", status "COMPLETED", total_issues 0 and no `error` key.
C22_NoArrayIsEmpty ==
    \A r \in Analyzed :
        (RepliesText(req[r].reply) /\ NoArrayIn(req[r].reply.content.text)) =>
            /\ req[r].outcome = analyze(req[r].analyzer, req[r].request.file_path,
                                        EmptyArrayReply)
            /\ CleanResult(req[r].outcome.value)

\* C22 witness: the reply `none`, which is no JSON, gave the result of a run
\* that found nothing.
C22_Witness ==
    \E r \in Analyzed :
        /\ req[r].reply = HttpReply(200, "content", Text(<<"n", "o", "n", "e">>))
        /\ NoArrayIn(req[r].reply.content.text)
        /\ CleanResult(req[r].outcome.value)
        /\ req[r].response.status = 200
        /\ req[r].response.body.issues = <<>>

\* The response a request gets when it is the only one the service handles and
\* its chat-completion call resolves with the reply
AloneResponse(request, reply) ==
    IF detected_lang(request) = UNKNOWN
    THEN HTTPException(400, <<"Unable to detect language or unsupported language type.">>)
    ELSE respond(analyze(analyzers[detected_lang(request)], request.file_path, reply))

\* C23: concurrent requests do not interfere.  In every interleaving of the
\* two requests, the analyzer a request is given and the code it sends come
\* from its own language, path and code, and its response is the one it gets
\* alone with the same remote reply.
C23_NoInterference ==
    \A r \in RequestIds :
        /\ req[r].pc = "awaiting" =>
              /\ req[r].analyzer = analyzers[detected_lang(req[r].request)]
              /\ req[r].sent = <<preprocess_of(req[r].analyzer,
                                               CodeText(req[r].request.code))>>
              /\ req[r].response = NoResponse
        /\ (req[r].pc = "done" /\ req[r].response.status # 503) =>
              /\ req[r].response = AloneResponse(req[r].request, req[r].reply)
              /\ r \in Analyzed =>
                    /\ req[r].analyzer = analyzers[detected_lang(req[r].request)]
                    /\ req[r].sent = <<preprocess_of(req[r].analyzer,
                                                     CodeText(req[r].request.code))>>

\* C23 witness: request 1, hinted as Java, is waiting for its reply while
\* request 2, a C# file, has been answered with its own reply's issue, as C#
\* and under its own path.
C23_Witness ==
    /\ req[1].pc = "awaiting"
    /\ req[1].request.language = Hint("java")
    /\ req[1].request.file_path = None
    /\ req[2].pc = "done"
    /\ req[2].request.language = Hint("auto")
    /\ req[2].request.file_path = Some(U_cs)
    /\ req[2].reply.content.is_text
    /\ req[2].response.status = 200
    /\ req[2].response.body.language = "csharp"
    /\ Len(req[2].response.body.issues) = 1
    /\ req[2].response.body.issues[1].file_path = Str(U_cs)

\* analyze ended with status "COMPLETED"
Completed(result) ==
    /\ "status" \in DOMAIN result.analysis_metadata
    /\ result.analysis_metadata.status = "COMPLETED"

\* What preprocess_code of the analyzer's class makes of the request's code
Preprocessed(analyzer, code) ==
    IF analyzer = "JavaSecurityAnalyzer"
    THEN java_sub_block_comments(sub_line_comments(CodeText(code)))
    ELSE sub_block_comments(sub_line_comments(CodeText(code)))

\* C25: an analyze that ends with status "COMPLETED" has run Preprocess, Invoke
\* and Normalize in this order, each once; the code sent to the remote model is
\* the output of preprocess_code, and parsing starts only after the remote call
\* has returned text: nothing is parsed while the call is pending, and the
\* issues are those of the text returned.  When the call fails, Normalize does
\* not run and the result carries the call's failure.
C25_StagesInOrder ==
    \A r \in RequestIds :
        /\ req[r].pc = "awaiting" =>
              /\ req[r].stages = <<"Preprocess", "Invoke">>
              /\ req[r].sent = <<Preprocessed(req[r].analyzer, req[r].request.code)>>
              /\ req[r].outcome = Idle.outcome
        /\ (r \in Analyzed /\ Completed(req[r].outcome.value)) =>
              /\ req[r].stages = <<"Preprocess", "Invoke", "Normalize">>
              /\ req[r].sent = <<Preprocessed(req[r].analyzer, req[r].request.code)>>
              /\ RepliesText(req[r].reply)
              /\ req[r].outcome.value.issues =
                    _create_security_issues(parse_llm_response(req[r].reply.content).value,
                                            req[r].request.file_path)
        /\ (r \in Analyzed /\ GatewayFails(req[r].reply)) =>
              /\ req[r].stages = <<"Preprocess", "Invoke">>
              /\ ~Completed(req[r].outcome.value)
              /\ req[r].outcome.value.analysis_metadata.error[1] = "LLM analysis failed: "
        /\ (req[r].pc = "done" /\ req[r].analyzer = "") =>
              /\ req[r].stages = <<>>
              /\ req[r].sent = <<>>

\* C25 witness: a completed analysis of two lines of C#, whose comments were
\* cut out of the code that was sent, with the issue parsed from the reply.
C25_Witness ==
    \E r \in Analyzed :
        /\ Completed(req[r].outcome.value)
        /\ req[r].request.code = <<"using", "plain">>
        /\ req[r].analyzer = "CSharpSecurityAnalyzer"
        /\ req[r].stages = <<"Preprocess", "Invoke", "Normalize">>
        /\ Len(req[r].sent) = 1
        /\ req[r].sent[1] # CodeText(req[r].request.code)
        /\ Len(req[r].sent[1]) < Len(CodeText(req[r].request.code))
        /\ Len(req[r].outcome.value.issues) = 1
        /\ req[r].outcome.value.issues[1].severity = "HIGH"

\* The request has its response: an HTTP status and nothing pending
Responded(r) == req[r].pc = "done" /\ req[r].response.status \in {200, 400, 503}

\* C26: every /analyze request accepted by the initialized service, its remote
\* call resolving, is eventually answered, and answered once: a request that
\* waits for its remote call ends up responded, a request never waits or
\* changes after its call has resolved, and a response, once given, stays as
\* it is.
C26_AnsweredOnce ==
    /\ \A r \in RequestIds : (req[r].pc = "awaiting") ~> Responded(r)
    /\ [][\A r \in RequestIds :
             /\ (req[r].pc = "awaiting" /\ req'[r] # req[r]) => Responded(r)'
             /\ req[r].pc = "done" => req'[r] = req[r]]_vars

\* C26 witness: both requests were accepted and waited for their remote calls;
\* one call timed out, the other returned an array, and each request has its
\* one response.
C26_Witness ==
    /\ \A r \in RequestIds : Responded(r) /\ Len(req[r].sent) = 1
    /\ req[1].reply = ReadTimeout
    /\ req[1].response.status = 200
    /\ req[2].reply = EmptyArrayReply
    /\ req[2].response.status = 200

\* The keys of the two shapes of analysis_metadata
Counts == {"total_issues", "critical_count", "high_count", "medium_count", "low_count"}

SuccessShape(result) ==
    /\ DOMAIN result.analysis_metadata =
          Counts \cup {"status", "analyzer", "completion_message"}
    /\ result.analysis_metadata.status = "COMPLETED"
    /\ \A c \in Counts : result.analysis_metadata[c] \in 0..Len(result.issues)

FailureShape(result) ==
    /\ "error" \in DOMAIN result.analysis_metadata
    /\ "status" \notin DOMAIN result.analysis_metadata
    /\ Counts \cap DOMAIN result.analysis_metadata = {}

\* C27: the metadata of every result analyze returns has the success shape
\* (status "COMPLETED", the five counts, no `error`) or the failure shape
\* (`error`, neither `status` nor counts), never both; the failure shape comes
\* with no issues and exactly when a stage raised, so the metadata alone tells
\* a contained failure from a clean run.
C27_TwoShapes ==
    \A r \in Analyzed :
        LET result == req[r].outcome.value
        IN  /\ ~req[r].outcome.raised
            /\ SuccessShape(result) # FailureShape(result)
            /\ FailureShape(result) => result.issues = <<>>
            /\ FailureShape(result) <=> StageRaises(req[r].reply)

\* C27 witness: two analyses with no issues, one a clean run on the reply `[]`
\* and one a contained failure of the call, with metadata of the two shapes.
C27_Witness ==
    /\ Analyzed = RequestIds
    /\ req[1].reply = EmptyArrayReply
    /\ req[2].reply = ConnectError
    /\ req[1].outcome.value.issues = <<>>
    /\ req[2].outcome.value.issues = <<>>
    /\ SuccessShape(req[1].outcome.value)
    /\ FailureShape(req[2].outcome.value)
    /\ DOMAIN req[2].outcome.value.analysis_metadata = {"error", "analyzer"}

\* C28: every 200 response of POST /analyze carries the same completion_status,
\* "ANALYSIS FINISHED SUCCESSFULLY", also when the analysis failed inside the
\* analyzer (metadata with `error`, summary "Analysis failed: ..."): the field
\* does not tell a contained failure from a success.
C28_SameCompletionStatus ==
    \A r \in RequestIds :
        (req[r].pc = "done" /\ req[r].response.status = 200) =>
            /\ req[r].response.body.completion_status = "ANALYSIS FINISHED SUCCESSFULLY"
            /\ StageRaises(req[r].reply) =>
                  /\ "error" \in DOMAIN req[r].response.body.metadata
                  /\ req[r].response.body.summary[1] = "Analysis failed"

\* C28 witness: a 200 response to an analysis that failed on a 500 of the
\* remote model and a 200 response to one that found an issue, with the same
\* completion_status.
C28_Witness ==
    /\ \A r \in RequestIds : req[r].pc = "done" /\ req[r].response.status = 200
    /\ req[1].reply = HttpReply(500, "", NotText)
    /\ "error" \in DOMAIN req[1].response.body.metadata
    /\ req[1].response.body.summary[1] = "Analysis failed"
    /\ Len(req[2].response.body.issues) = 1
    /\ "error" \notin DOMAIN req[2].response.body.metadata
    /\ req[1].response.body.completion_status = req[2].response.body.completion_status

\* The hint is a registered language id
HintsLanguage(request) ==
    request.language.present /\ request.language.text \in KnownLanguages

\* C29: a request whose hint is a registered language id gets the analyzer of
\* that language and a response reporting that language, whatever its path and
\* code; a request whose hint is "auto", empty or absent gets the language
\* detect_language(code, file_path) returns (400 when that is Unknown).
C29_HintSelectsAnalyzer ==
    \A r \in RequestIds :
        LET request  == req[r].request
            accepted == req[r].pc = "awaiting"
                           \/ (req[r].pc = "done" /\ req[r].response.status # 503)
            language == IF HintsLanguage(request) THEN request.language.text
                        ELSE detect_language(request.code, request.file_path)
        IN  (accepted /\ (HintsLanguage(request) \/ AsksDetection(request))) =>
                IF language = UNKNOWN
                THEN req[r].pc = "done" /\ req[r].response.status = 400
                ELSE /\ req[r].analyzer = analyzers[language]
                     /\ req[r].pc = "done" =>
                           /\ req[r].response.status = 200
                           /\ req[r].response.body.language = language

\* C29 witness: two requests for the same C# file, U.cs, with C# code; the one
\* hinted "java" was analyzed as Java, the one with the empty hint as C#.
C29_Witness ==
    /\ \A r \in RequestIds :
          /\ req[r].pc = "done"
          /\ req[r].request.file_path = Some(U_cs)
          /\ req[r].request.code = <<"using", "plain">>
          /\ req[r].response.status = 200
    /\ detect_language(<<"using", "plain">>, Some(U_cs)) = "csharp"
    /\ req[1].request.language = Hint("java")
    /\ req[1].analyzer = "JavaSecurityAnalyzer"
    /\ req[1].response.body.language = "java"
    /\ req[2].request.language = Hint("")
    /\ req[2].analyzer = "CSharpSecurityAnalyzer"
    /\ req[2].response.body.language = "csharp"

---------------------------------------------------------------------------
(* The detector's advertised extensions (checked under SpecDetect)         *)

ExtensionsDone == ret.done /\ call.fn = "get_supported_extensions"

\* C30: advertised extensions round-trip through detection.  A path ending in
\* an extension that get_supported_extensions returns for a language other
\* than Unknown is detected as that language, whatever the code; no entry of
\* the extension table that belongs to another language matches an advertised
\* extension; and nothing is advertised for Unknown.
C30_ExtensionsRoundTrip ==
    /\ (DetectDone /\ Truthy(call.file_path)) =>
          \A L \in KnownLanguages :
              \A k \in 1..Len(get_supported_extensions(L)) :
                  EndsWith(call.file_path.text, get_supported_extensions(L)[k])
                      => ret.value = L
    /\ ExtensionsDone =>
          /\ call.language = UNKNOWN => ret.value = <<>>
          /\ \A k \in 1..Len(ret.value) :
                \A i \in 1..Len(EXTENSION_MAP) :
                    EndsWith(ret.value[k], EXTENSION_MAP[i].ext)
                        => EXTENSION_MAP[i].lang = call.language

\* C30 witness: the path a.js.java, with React code behind it, is detected as
\* Java by the advertised extension .java, which the entry .js does not match.
C30_Witness ==
    /\ DetectDone
    /\ call.file_path = Some(<<"a", ".", "j", "s", ".", "j", "a", "v", "a">>)
    /\ call.code = <<"react", "export">>
    /\ _detect_by_patterns(call.code) = "react_javascript"
    /\ \E k \in 1..Len(get_supported_extensions("java")) :
          EndsWith(call.file_path.text, get_supported_extensions("java")[k])
    /\ ret.value = "java"

===========================================================================
